---- MODULE Spec2Model ----
(***************************************************************************)
(* Model of the recommendation engine, the recommendations API route and   *)
(* the multi-source rating aggregation of movie-discovery-app.             *)
(*                                                                         *)
(* Number representation.  Ratings (vote_average, 0..10) are integers in   *)
(* hundredths of a rating point (9.0 is 900).  Popularity and years are    *)
(* integers; 0 stands for a missing (falsy) field.  A recommendation score *)
(* is the exact rational num/den kept as a record [num, den]; all scores   *)
(* of one engine share the denominator ScoreDen, so they compare by their  *)
(* numerators.  A genre weight is a numerator over WeightDen.              *)
(*                                                                         *)
(* The code computes in IEEE doubles.  The movies of the catalogs are      *)
(* chosen so that, for every watchlist and candidate the model reaches,    *)
(* the double the code computes and the exact rational stand on the same   *)
(* side of every threshold they are compared with (0.3, 0.7, the rating    *)
(* band) and every two scores compare the same way.                        *)
(***************************************************************************)
EXTENDS Integers, Sequences, FiniteSets, TLC

VARIABLES
    watchlist,        \* engine -> RecommendationEngine.watchlist
    preferences,      \* engine -> RecommendationEngine.preferences (<<>> is null)
    pc,               \* engine -> "idle" | "returned" (a call has returned its result)
    candidateMovies,  \* arguments of the generateRecommendations call last made
    limit,
    mode,             \* engine -> branch the last call took: "none" | "cold" | "personalized"
    scored,           \* engine -> what the forEach of the last call computed per candidate
    recommendations,  \* engine -> value returned by the last call
    updated           \* engine -> an updateWatchlist call has been served (history)

VARIABLES
    apiPc,            \* recommendations route: "idle" | "responded"
    request,          \* the request the route last handled
    response          \* the response it sent

engineVars == <<watchlist, preferences, pc, candidateMovies, limit, mode, scored,
                recommendations, updated>>

VARIABLES
    aggPc,            \* enrichment of one item: "start" | "converted" | "plain" | "merged"
    tmdbItem,         \* the TMDB record being enriched
    enhanced          \* the EnhancedMovie made of it

apiVars == <<apiPc, request, response>>

aggVars == <<aggPc, tmdbItem, enhanced>>

VARIABLES
    searchPc,         \* a search / getTrending call: "idle" | "mapping" | "resolved" | "rejected"
    searchCall,       \* its TMDB results and its includeOMDBData option
    lookups,          \* per item, how its getOMDBDataForMovie lookup settled
    mapped,           \* per item, the value its map callback resolved with (<<>> while pending)
    searchResults     \* the results the call resolved with

searchVars == <<searchPc, searchCall, lookups, mapped, searchResults>>

VARIABLES
    state,            \* WatchlistProvider: the reducer state { items, loading }
    closure,          \* the state the last render saw (what effects and handlers read)
    effects,          \* effects of the last commit still to run, in order
    localStorage,     \* the value stored under STORAGE_KEY
    clock,            \* Date.now(), in ticks
    lastCall,         \* the context function last called, its argument, the items before it
    saveFailed        \* the last localStorage.setItem threw

ctxVars == <<state, closure, effects, localStorage, clock, lastCall, saveFailed>>

VARIABLES
    now,              \* Date.now(), in milliseconds
    requests,         \* lib/tmdb.ts RateLimiter.requests
    sleeping,         \* due times of the timers of the callers waiting in waitIfNeeded
    sent              \* times at which a TMDB request was recorded and sent (history)

limVars == <<now, requests, sleeping, sent>>

VARIABLES
    omdbRequests,     \* OMDBRateLimiter.requests
    inFlight,         \* OMDB fetches sent and not yet answered
    omdbSent,         \* times at which an OMDB request was sent (history)
    omdbCalls,        \* single makeRequest calls made so far (history)
    lastOmdb          \* how the last makeRequest call started, and what it found

omdbVars == <<omdbRequests, inFlight, omdbSent, omdbCalls, lastOmdb>>

laterVars == <<searchVars, ctxVars, limVars, omdbVars>>

vars == <<engineVars, apiVars, aggVars, laterVars>>

notEngine == <<apiVars, aggVars, laterVars>>

notApi == <<engineVars, aggVars, laterVars>>

notAgg == <<engineVars, apiVars, laterVars>>

notSearch == <<engineVars, apiVars, aggVars, ctxVars, limVars, omdbVars>>

notCtx == <<engineVars, apiVars, aggVars, searchVars, limVars, omdbVars>>

notLim == <<engineVars, apiVars, aggVars, searchVars, ctxVars, omdbVars>>

(* the OMDB client reads the clock too *)
notOmdb == <<engineVars, apiVars, aggVars, searchVars, ctxVars, requests, sleeping, sent>>

-----------------------------------------------------------------------------
(* Bounds of the model. *)

MaxWatch == 2      \* longest watchlist handed to an engine
MaxCand == 2       \* longest candidate pool
MaxLimit == 2      \* largest limit argument
MaxIds == 2        \* most watchlist ids in one request

(* new Date().getFullYear() *)
CurrentYear == 2025

(* Math.min() of no arguments *)
Infinity == 999999

Engines == {"A", "B"}

-----------------------------------------------------------------------------
(* Generic helpers. *)

Min(a, b) == IF a < b THEN a ELSE b

Max(a, b) == IF a > b THEN a ELSE b

Range(s) == {s[i] : i \in 1..Len(s)}

RECURSIVE SumSeq(_)
SumSeq(s) == IF s = <<>> THEN 0 ELSE Head(s) + SumSeq(Tail(s))

RECURSIVE SetToSeqAsc(_)
(* The elements of a finite set of integers in ascending order. *)
SetToSeqAsc(S) ==
    IF S = {} THEN <<>>
    ELSE LET m == CHOOSE x \in S : \A y \in S : x <= y
         IN  <<m>> \o SetToSeqAsc(S \ {m})

RECURSIVE Lcm1To(_)
Gcd(a, b) == CHOOSE g \in 1..Max(a, b) :
                 /\ a % g = 0 /\ b % g = 0
                 /\ \A h \in 1..Max(a, b) : (a % h = 0 /\ b % h = 0) => h <= g
Lcm1To(n) == IF n <= 1 THEN 1 ELSE (Lcm1To(n - 1) * n) \div Gcd(Lcm1To(n - 1), n)

(* Array.prototype.slice(start, end): a negative index counts from the back. *)
JsSlice(s, start, end) ==
    LET from == IF start < 0 THEN Max(Len(s) + start, 0) ELSE Min(start, Len(s))
        to == IF end < 0 THEN Max(Len(s) + end, 0) ELSE Min(end, Len(s))
    IN  SubSeq(s, from + 1, to)

SliceTo(s, end) == JsSlice(s, 0, end)

RECURSIVE InsertDesc(_, _)
(* x put into s, which is in descending key order, behind every element    *)
(* whose key is at least x.key.                                            *)
InsertDesc(x, s) ==
    IF s = <<>> THEN <<x>>
    ELSE IF Head(s).key < x.key THEN <<x>> \o s
    ELSE <<Head(s)>> \o InsertDesc(x, Tail(s))

RECURSIVE SortDescKeyed(_)
(* Array.prototype.sort((a, b) => b.key - a.key) on [key, val] records:    *)
(* descending and stable (elements with equal keys keep their order).      *)
SortDescKeyed(s) ==
    IF s = <<>> THEN <<>>
    ELSE InsertDesc(s[Len(s)], SortDescKeyed(SubSeq(s, 1, Len(s) - 1)))

Vals(s) == [i \in 1..Len(s) |-> s[i].val]

-----------------------------------------------------------------------------
(* EnhancedMovie.  genre_ids is a set ({} for a missing or empty list),    *)
(* vote_average is in hundredths, year is the year of release_date (0 for  *)
(* an empty release_date), actors is the list movie.actors.split(', ')     *)
(* (<<>> for no actors field), director and original_language are "" when *)
(* missing.                                                                *)

Movie(id, genres, rating, year, pop, actors, director, lang) ==
    [id |-> id, genre_ids |-> genres, vote_average |-> rating, year |-> year,
     popularity |-> pop, actors |-> actors, director |-> director,
     original_language |-> lang]

(* The movies the model draws watchlists and candidate pools from. *)
Catalog ==
    { Movie(1, {28}, 900, 2020, 50, <<"Ann Lee", "Bo Roy">>, "Cy Orr", "en"),
      Movie(1, {28}, 900, 2020, 700, <<>>, "", "en"),
      Movie(2, {28}, 850, 2021, 600, <<>>, "", "en"),
      Movie(3, {28, 35}, 300, 2021, 160, <<"ann lee">>, "cy orr", "fr"),
      Movie(4, {}, 200, 0, 0, <<>>, "", ""),
      Movie(5, {35}, 0, 1995, 2000, <<>>, "", ""),
      Movie(6, {35}, 950, 2024, 90, <<"Bo Roy", "Di Paz">>, "Di Paz", "en") }

RECURSIVE SeqsUpTo(_, _)
(* All sequences over S of length at most n. *)
SeqsUpTo(S, n) ==
    IF n = 0 THEN {<<>>}
    ELSE LET shorter == SeqsUpTo(S, n - 1)
         IN  shorter \cup {Append(q, x) : q \in shorter, x \in S}

(* All sequences over S of length at most n that list no element twice. *)
PoolsUpTo(S, n) ==
    {q \in SeqsUpTo(S, n) : \A i, j \in 1..Len(q) : q[i] = q[j] => i = j}

(* A watchlist may hold a movie twice; a candidate pool lists a record     *)
(* once (two records of one id may differ).                                *)
Watchlists == SeqsUpTo(Catalog, MaxWatch)

CandidatePools == PoolsUpTo(Catalog, MaxCand)

Limits == 0..MaxLimit

MaxOf(S) == IF S = {} THEN 1 ELSE CHOOSE x \in S : \A y \in S : y <= x

(* Largest number of genres, and of actors, a movie of the catalog lists. *)
MaxGenres == MaxOf({Cardinality(m.genre_ids) : m \in Catalog})

MaxActors == MaxOf({Len(m.actors) : m \in Catalog})

-----------------------------------------------------------------------------
(* Strings. *)

(* String.prototype.toLowerCase on the names of the catalog. *)
toLowerCase(n) ==
    CASE n = "Ann Lee" -> "ann lee"
      [] n = "Bo Roy" -> "bo roy"
      [] n = "Cy Orr" -> "cy orr"
      [] n = "Di Paz" -> "di paz"
      [] OTHER -> n

(* String.prototype.includes: no full name of the catalog is a proper      *)
(* substring of another one.                                               *)
includes(text, part) == text = part

RECURSIVE Distinct(_)
(* The elements of s, each once, in the order of their first occurrence. *)
Distinct(s) ==
    IF s = <<>> THEN <<>>
    ELSE LET init == Distinct(SubSeq(s, 1, Len(s) - 1))
             x == s[Len(s)]
         IN  IF x \in Range(init) THEN init ELSE Append(init, x)

RECURSIVE Flatten(_)
Flatten(ss) == IF ss = <<>> THEN <<>> ELSE Head(ss) \o Flatten(Tail(ss))

-----------------------------------------------------------------------------
(* RecommendationEngine.analyzePreferences *)

getGenreName(genreId) ==
    CASE genreId = 28 -> "Action"
      [] genreId = 12 -> "Adventure"
      [] genreId = 16 -> "Animation"
      [] genreId = 35 -> "Comedy"
      [] genreId = 80 -> "Crime"
      [] genreId = 99 -> "Documentary"
      [] genreId = 18 -> "Drama"
      [] genreId = 10751 -> "Family"
      [] genreId = 14 -> "Fantasy"
      [] genreId = 36 -> "History"
      [] genreId = 27 -> "Horror"
      [] genreId = 10402 -> "Music"
      [] genreId = 9648 -> "Mystery"
      [] genreId = 10749 -> "Romance"
      [] genreId = 878 -> "Science Fiction"
      [] genreId = 10770 -> "TV Movie"
      [] genreId = 53 -> "Thriller"
      [] genreId = 10752 -> "War"
      [] genreId = 37 -> "Western"
      [] OTHER -> "Unknown"

getTopItems(items, n) ==
    LET normalized == [i \in 1..Len(items) |-> toLowerCase(items[i])]
        names == Distinct(normalized)
        count(x) == Cardinality({i \in 1..Len(normalized) : normalized[i] = x})
        entries == [i \in 1..Len(names) |-> [key |-> count(names[i]), val |-> names[i]]]
    IN  Vals(SliceTo(SortDescKeyed(entries), n))

(* genreCount after the forEach: genre id -> count and totalRating. *)
GenreCount(w) ==
    LET ids == UNION {w[i].genre_ids : i \in 1..Len(w)}
        with(g) == SelectSeq(w, LAMBDA m : g \in m.genre_ids)
    IN  [g \in ids |->
            [count |-> Len(with(g)),
             totalRating |-> SumSeq([i \in 1..Len(with(g)) |-> with(g)[i].vote_average])]]

(* Denominator of the genre weights of a watchlist of n items: a weight    *)
(* numerator t stands for t / (1000 * n).                                  *)
WeightDen(n) == 1000 * n

GenreWeightUnrated(data) == 1000 * data.count

(* weight = (count / length) * (totalRating / count / 10), which is        *)
(* totalRating / (10 * length): totalRating hundredths over WeightDen.     *)
GenreWeight(data) == (data.count * data.totalRating) \div data.count

FavoriteGenres(w) ==
    LET gc == GenreCount(w)
        ids == SetToSeqAsc(DOMAIN gc)   \* Object.entries of integer keys
        entries == [i \in 1..Len(ids) |->
                       [key |-> GenreWeight(gc[ids[i]]),
                        val |-> [id |-> ids[i], name |-> getGenreName(ids[i]),
                                 weight |-> GenreWeight(gc[ids[i]])]]]
    IN  Vals(SliceTo(SortDescKeyed(entries), 5))

AverageRatingAll(w) ==
    IF Len(w) > 0
    THEN [num |-> SumSeq([i \in 1..Len(w) |-> w[i].vote_average]), den |-> Len(w)]
    ELSE [num |-> 700, den |-> 1]

(* ratings: the vote_average values above 0; avgRating is their mean, or 7 *)
(* when there are none, kept as the rational sum / count.                  *)
AverageRating(w) ==
    LET ratings == SelectSeq([i \in 1..Len(w) |-> w[i].vote_average], LAMBDA r : r > 0)
    IN  IF Len(ratings) > 0 THEN [num |-> SumSeq(ratings), den |-> Len(ratings)]
        ELSE [num |-> 700, den |-> 1]

(* Math.max(avgRating - 1.5, 0) over the denominator of avgRating. *)
MinRating(avg) == [num |-> Max(avg.num - 150 * avg.den, 0), den |-> avg.den]

Ceil70(n) == (7 * n + 9) \div 10   \* Math.ceil(n * 0.7)

MinYear(w) ==
    LET dated == SelectSeq(w, LAMBDA m : m.year # 0)
        years == SelectSeq([i \in 1..Len(dated) |-> dated[i].year], LAMBDA y : y > 1900)
        sortedYears == Vals(SortDescKeyed([i \in 1..Len(years) |->
                                              [key |-> years[i], val |-> years[i]]]))
        recentYears == SliceTo(sortedYears, Ceil70(Len(sortedYears)))
        least == IF recentYears = <<>> THEN Infinity ELSE recentYears[Len(recentYears)]
    IN  IF least = 0 THEN CurrentYear - 10 ELSE least

analyzePreferences(w) ==
    IF w = <<>> THEN <<>>
    ELSE LET haveLang == SelectSeq(w, LAMBDA m : m.original_language # "")
             languages == [i \in 1..Len(haveLang) |-> haveLang[i].original_language]
             actors == Flatten([i \in 1..Len(w) |-> SliceTo(w[i].actors, 3)])
             haveDir == SelectSeq(w, LAMBDA m : m.director # "")
             directors == [i \in 1..Len(haveDir) |-> haveDir[i].director]
             avgRating == AverageRating(w)
         IN  << [favoriteGenres |-> FavoriteGenres(w),
                 preferredRatingRange |-> [min |-> MinRating(avgRating), max |-> 1000],
                 preferredYearRange |-> [min |-> MinYear(w), max |-> CurrentYear],
                 averageRating |-> avgRating,
                 totalWatched |-> Len(w),
                 preferredLanguages |-> getTopItems(languages, 3),
                 actorPreferences |-> getTopItems(actors, 10),
                 directorPreferences |-> getTopItems(directors, 5)] >>

-----------------------------------------------------------------------------
(* RecommendationEngine.calculateRecommendationScore.  The terms are       *)
(* numerators over ScoreDen(prefs).                                        *)

LcmGenres == Lcm1To(MaxGenres)

LcmActors == Lcm1To(MaxActors)

ScoreDen(prefs) == 20000 * prefs.totalWatched * LcmGenres * LcmActors

(* preference ? preference.weight : 0 for favoriteGenres.find(g => g.id === genreId) *)
PreferenceWeight(prefs, genreId) ==
    LET found == SelectSeq(prefs.favoriteGenres, LAMBDA g : g.id = genreId)
    IN  IF found = <<>> THEN 0 ELSE found[1].weight

(* genreScore * 0.4, genreScore the mean preference weight of the genres *)
GenreTerm(prefs, movie) ==
    LET ids == SetToSeqAsc(movie.genre_ids)
        total == SumSeq([i \in 1..Len(ids) |-> PreferenceWeight(prefs, ids[i])])
    IN  IF Len(ids) > 0
        THEN (total * 8 * LcmGenres * LcmActors) \div Len(ids)
        ELSE 0

InRatingRange(prefs, rating) ==
    LET range == prefs.preferredRatingRange
    IN  /\ rating * range.min.den >= range.min.num
        /\ rating <= range.max

RatingTermPenalised(prefs, movie) ==
    IF movie.vote_average # 0
    THEN IF InRatingRange(prefs, movie.vote_average)
         THEN 5 * Min(movie.vote_average, 1000) * prefs.totalWatched * LcmGenres * LcmActors
         ELSE 0 - 5 * (1000 - Min(movie.vote_average, 1000))
                    * prefs.totalWatched * LcmGenres * LcmActors
    ELSE 0

RatingTermSoft(prefs, movie) ==
    IF movie.vote_average # 0
    THEN IF InRatingRange(prefs, movie.vote_average)
         THEN 5 * Min(movie.vote_average, 1000) * prefs.totalWatched * LcmGenres * LcmActors
         ELSE (5 * Min(movie.vote_average, 1000) * prefs.totalWatched * LcmGenres * LcmActors)
                  \div 2
    ELSE 0

(* Math.min(vote_average / 10, 1) * 0.25 inside the preferred range, else 0 *)
RatingTerm(prefs, movie) ==
    IF movie.vote_average # 0 /\ InRatingRange(prefs, movie.vote_average)
    THEN 5 * Min(movie.vote_average, 1000) * prefs.totalWatched * LcmGenres * LcmActors
    ELSE 0

(* 0.15 when the release year lies in the preferred range *)
YearTerm(prefs, movie) ==
    IF /\ movie.year # 0
       /\ movie.year >= prefs.preferredYearRange.min
       /\ movie.year <= prefs.preferredYearRange.max
    THEN 3000 * prefs.totalWatched * LcmGenres * LcmActors
    ELSE 0

(* Math.min(popularity / 1000, 1) * 0.1 *)
PopularityTerm(prefs, movie) ==
    IF movie.popularity # 0
    THEN 2 * Min(movie.popularity, 1000) * prefs.totalWatched * LcmGenres * LcmActors
    ELSE 0

(* Math.min(peopleScore, 1) * 0.1; peopleScore is kept in units of         *)
(* 1 / (10 * LcmActors).                                                   *)
PeopleTerm(prefs, movie) ==
    LET movieActors == [i \in 1..Len(movie.actors) |-> toLowerCase(movie.actors[i])]
        matchingActors ==
            SelectSeq(movieActors,
                      LAMBDA actor : \E i \in 1..Len(prefs.actorPreferences) :
                                        includes(actor, prefs.actorPreferences[i]))
        fromActors ==
            IF movie.actors # <<>> /\ Len(prefs.actorPreferences) > 0
            THEN (7 * Len(matchingActors) * LcmActors) \div Len(movieActors)
            ELSE 0
        matchingDirector ==
            \E i \in 1..Len(prefs.directorPreferences) :
                includes(toLowerCase(movie.director), prefs.directorPreferences[i])
        fromDirector ==
            IF movie.director # "" /\ Len(prefs.directorPreferences) > 0 /\ matchingDirector
            THEN 3 * LcmActors
            ELSE 0
        peopleScore == fromActors + fromDirector
    IN  Min(peopleScore, 10 * LcmActors) * 200 * prefs.totalWatched * LcmGenres

(* maxScore grown only by the weights of the fields the candidate has *)
calculateRecommendationScorePresentOnly(preferences_, movie) ==
    IF preferences_ = <<>> THEN [num |-> 0, den |-> 1]
    ELSE LET prefs == preferences_[1]
             score == GenreTerm(prefs, movie) + RatingTerm(prefs, movie)
                        + YearTerm(prefs, movie) + PopularityTerm(prefs, movie)
                        + PeopleTerm(prefs, movie)
             present == (IF movie.genre_ids # {} THEN 40 ELSE 0)
                          + (IF movie.vote_average # 0 THEN 25 ELSE 0)
                          + (IF movie.year # 0 THEN 15 ELSE 0)
                          + (IF movie.popularity # 0 THEN 10 ELSE 0)
                          + (IF movie.actors # <<>> \/ movie.director # "" THEN 10 ELSE 0)
         IN  [num |-> IF present = 0 THEN 0
                      ELSE Min((score * 100) \div present, ScoreDen(prefs)),
              den |-> ScoreDen(prefs)]

(* preferences is the engine's field: <<>> for null. *)
calculateRecommendationScore(preferences_, movie) ==
    IF preferences_ = <<>> THEN [num |-> 0, den |-> 1]
    ELSE LET prefs == preferences_[1]
             score == GenreTerm(prefs, movie) + RatingTerm(prefs, movie)
                        + YearTerm(prefs, movie) + PopularityTerm(prefs, movie)
                        + PeopleTerm(prefs, movie)
             maxScore == ScoreDen(prefs)   \* 0.4 + 0.25 + 0.15 + 0.1 + 0.1 = 1
         IN  [num |-> Min(score, maxScore), den |-> ScoreDen(prefs)]

-----------------------------------------------------------------------------
(* RecommendationEngine.generateReasons and determineCategory.  A reason   *)
(* is [type, confidence], the confidence a rational; the description text  *)
(* is left out.                                                            *)

generateReasons(preferences_, movie) ==
    IF preferences_ = <<>> THEN <<>>
    ELSE LET prefs == preferences_[1]
             matchingGenres ==
                 SelectSeq(prefs.favoriteGenres, LAMBDA g : g.id \in movie.genre_ids)
             topWeight == MaxOf({matchingGenres[i].weight : i \in 1..Len(matchingGenres)})
             genreReasons ==
                 IF Len(matchingGenres) > 0
                 THEN << [type |-> "genre",
                          confidence |-> [num |-> topWeight,
                                          den |-> WeightDen(prefs.totalWatched)]] >>
                 ELSE <<>>
             ratingReasons ==
                 IF /\ movie.vote_average # 0
                    /\ movie.vote_average * prefs.preferredRatingRange.min.den
                         >= prefs.preferredRatingRange.min.num
                 THEN << [type |-> "rating",
                          confidence |-> [num |-> Min(movie.vote_average, 1000),
                                          den |-> 1000]] >>
                 ELSE <<>>
         IN  SliceTo(genreReasons \o ratingReasons, 3)

determineCategoryBecauseYouWatched(movie, reasons) ==
    IF \E i \in 1..Len(reasons) :
           /\ reasons[i].type = "genre"
           /\ reasons[i].confidence.num * 10 > 7 * reasons[i].confidence.den
    THEN "genre_match"
    ELSE IF movie.vote_average # 0 /\ movie.vote_average >= 800 THEN "highly_rated"
    ELSE IF movie.popularity # 0 /\ movie.popularity > 500 THEN "trending"
    ELSE "because_you_watched"

determineCategoryTrendingFirst(movie, reasons) ==
    IF \E i \in 1..Len(reasons) :
           /\ reasons[i].type = "genre"
           /\ reasons[i].confidence.num * 10 > 7 * reasons[i].confidence.den
    THEN "genre_match"
    ELSE IF movie.popularity # 0 /\ movie.popularity > 500 THEN "trending"
    ELSE IF movie.vote_average # 0 /\ movie.vote_average >= 800 THEN "highly_rated"
    ELSE "similar_taste"

determineCategory(movie, reasons) ==
    IF \E i \in 1..Len(reasons) :
           /\ reasons[i].type = "genre"
           /\ reasons[i].confidence.num * 10 > 7 * reasons[i].confidence.den
    THEN "genre_match"
    ELSE IF movie.vote_average # 0 /\ movie.vote_average >= 800 THEN "highly_rated"
    ELSE IF movie.popularity # 0 /\ movie.popularity > 500 THEN "trending"
    ELSE "similar_taste"

-----------------------------------------------------------------------------
(* RecommendationEngine.generateTrendingRecommendations and                *)
(* generateRecommendations.                                                *)

SortByKeyDesc(s, Key(_)) ==
    Vals(SortDescKeyed([i \in 1..Len(s) |-> [key |-> Key(s[i]), val |-> s[i]]]))

TrendingRecommendation(movie) ==
    [movie |-> movie,
     score |-> [num |-> Min(movie.popularity, 1000), den |-> 1000],
     reasons |-> << [type |-> "trending", confidence |-> [num |-> 8, den |-> 10]] >>,
     category |-> "trending"]

generateTrendingUnsorted(candidates, limit_) ==
    LET popular == SelectSeq(candidates,
                             LAMBDA movie : movie.popularity # 0 /\ movie.popularity > 100)
        top == SliceTo(popular, limit_)
    IN  [i \in 1..Len(top) |-> TrendingRecommendation(top[i])]

generateTrendingFloor500(candidates, limit_) ==
    LET popular == SelectSeq(candidates,
                             LAMBDA movie : movie.popularity # 0 /\ movie.popularity > 500)
        sorted == SortByKeyDesc(popular, LAMBDA movie : movie.popularity)
        top == SliceTo(sorted, limit_)
    IN  [i \in 1..Len(top) |-> TrendingRecommendation(top[i])]

generateTrendingRecommendations(candidates, limit_) ==
    LET popular == SelectSeq(candidates,
                             LAMBDA movie : movie.popularity # 0 /\ movie.popularity > 100)
        sorted == SortByKeyDesc(popular, LAMBDA movie : movie.popularity)
        top == SliceTo(sorted, limit_)
    IN  [i \in 1..Len(top) |-> TrendingRecommendation(top[i])]

(* Which branch a call takes. *)
Mode(watchlist_, preferences_) ==
    IF preferences_ = <<>> \/ Len(watchlist_) = 0 THEN "cold" ELSE "personalized"

InWatchlistSameRecord(watchlist_, movie) ==
    \E i \in 1..Len(watchlist_) : watchlist_[i] = movie

InWatchlist(watchlist_, movie) ==
    \E i \in 1..Len(watchlist_) : watchlist_[i].id = movie.id

ScoredCandidatesStrict(watchlist_, preferences_, candidates) ==
    LET fresh == SelectSeq(candidates,
                           LAMBDA movie : /\ ~InWatchlist(watchlist_, movie)
                                          /\ movie.genre_ids # {}
                                          /\ movie.vote_average # 0)
    IN  [i \in 1..Len(fresh) |->
            [movie |-> fresh[i],
             score |-> calculateRecommendationScore(preferences_, fresh[i]),
             reasons |-> generateReasons(preferences_, fresh[i]),
             category |-> determineCategory(fresh[i],
                                            generateReasons(preferences_, fresh[i]))]]

(* What the forEach computes for the candidates it does not skip. *)
ScoredCandidates(watchlist_, preferences_, candidates) ==
    LET fresh == SelectSeq(candidates, LAMBDA movie : ~InWatchlist(watchlist_, movie))
    IN  [i \in 1..Len(fresh) |->
            [movie |-> fresh[i],
             score |-> calculateRecommendationScore(preferences_, fresh[i]),
             reasons |-> generateReasons(preferences_, fresh[i]),
             category |-> determineCategory(fresh[i],
                                            generateReasons(preferences_, fresh[i]))]]

AboveThresholdLow(score) == score.num * 10 > 2 * score.den

(* score > 0.3 *)
AboveThreshold(score) == score.num * 10 > 3 * score.den

generateRecommendationsUnsorted(watchlist_, preferences_, candidates, limit_) ==
    IF Mode(watchlist_, preferences_) = "cold"
    THEN generateTrendingRecommendations(candidates, limit_)
    ELSE LET pushed == SelectSeq(ScoredCandidates(watchlist_, preferences_, candidates),
                                 LAMBDA rec : AboveThreshold(rec.score))
         IN  SliceTo(pushed, limit_)

generateRecommendations(watchlist_, preferences_, candidates, limit_) ==
    IF Mode(watchlist_, preferences_) = "cold"
    THEN generateTrendingRecommendations(candidates, limit_)
    ELSE LET pushed == SelectSeq(ScoredCandidates(watchlist_, preferences_, candidates),
                                 LAMBDA rec : AboveThreshold(rec.score))
         IN  SliceTo(SortByKeyDesc(pushed, LAMBDA rec : rec.score.num), limit_)

-----------------------------------------------------------------------------
(* The engine as a state machine: the constructor, updateWatchlist and     *)
(* generateRecommendations, whose result the caller takes in Return.       *)

(* Every engine of the model is constructed with the watchlist starts     *)
(* gives it.                                                               *)
EngineInit(starts) ==
    /\ watchlist \in starts
    /\ preferences = [e \in Engines |-> analyzePreferences(watchlist[e])]
    /\ pc = [e \in Engines |-> "idle"]
    /\ candidateMovies = <<>>
    /\ limit = 0
    /\ mode = [e \in Engines |-> "none"]
    /\ scored = [e \in Engines |-> <<>>]
    /\ recommendations = [e \in Engines |-> <<>>]
    /\ updated = [e \in Engines |-> FALSE]

updateWatchlistStale(e, newWatchlist) ==
    /\ pc[e] = "idle"
    /\ watchlist' = [watchlist EXCEPT ![e] = newWatchlist]
    /\ updated' = [updated EXCEPT ![e] = TRUE]
    /\ UNCHANGED <<preferences, pc, candidateMovies, limit, mode, scored, recommendations>>

updateWatchlist(e, newWatchlist) ==
    /\ pc[e] = "idle"
    /\ watchlist' = [watchlist EXCEPT ![e] = newWatchlist]
    /\ preferences' = [preferences EXCEPT ![e] = analyzePreferences(newWatchlist)]
    /\ updated' = [updated EXCEPT ![e] = TRUE]
    /\ UNCHANGED <<pc, candidateMovies, limit, mode, scored, recommendations>>

(* The engines of E are each called with the same arguments. *)
Generate(E, candidates, limit_) ==
    /\ \A e \in Engines : pc[e] = "idle"
    /\ candidateMovies' = candidates
    /\ limit' = limit_
    /\ mode' = [e \in Engines |->
                   IF e \in E THEN Mode(watchlist[e], preferences[e]) ELSE mode[e]]
    /\ scored' = [e \in Engines |->
                     IF e \in E /\ Mode(watchlist[e], preferences[e]) = "personalized"
                     THEN ScoredCandidates(watchlist[e], preferences[e], candidates)
                     ELSE <<>>]
    /\ recommendations' =
           [e \in Engines |->
               IF e \in E
               THEN generateRecommendations(watchlist[e], preferences[e], candidates, limit_)
               ELSE recommendations[e]]
    /\ pc' = [e \in Engines |-> IF e \in E THEN "returned" ELSE pc[e]]
    /\ UNCHANGED <<watchlist, preferences, updated>>

Return ==
    /\ \E e \in Engines : pc[e] = "returned"
    /\ pc' = [e \in Engines |-> "idle"]
    /\ candidateMovies' = <<>>
    /\ limit' = 0
    /\ mode' = [e \in Engines |-> "none"]
    /\ scored' = [e \in Engines |-> <<>>]
    /\ recommendations' = [e \in Engines |-> <<>>]
    /\ UNCHANGED <<watchlist, preferences, updated>>

-----------------------------------------------------------------------------
(* pages/api/recommendations.ts: handler, getCandidateMovies and           *)
(* getCategoryStats.  One request is handled in one step: a request owns   *)
(* its engine and shares nothing with another request.                     *)

(* A query parameter: absent, a text parseInt makes NaN of, or a number. *)
Param(kind, n) == [kind |-> kind, n |-> n]

Absent == Param("absent", 0)

(* parseInt(param) || fallback, the parameter defaulting to the fallback *)
ParseIntOr(param, fallback) ==
    IF param.kind = "number" /\ param.n # 0 THEN param.n ELSE fallback

(* watchlist_ids: form "none" is no parameter, "list" a JSON array or a    *)
(* comma-separated list of ids, "bare" the text of one number, which       *)
(* JSON.parse turns into a number: a number has no length and the lookups  *)
(* are skipped.                                                            *)
ParseWatchlistIds(param) == IF param.form = "list" THEN param.ids ELSE <<>>

(* The movies whose lookup succeeded, in request order.  details[i] is the *)
(* outcome of movieApi.getMovieDetails(id, true) for the i-th id of the    *)
(* first 50: <<>> when it threw, <<movie>> otherwise.                      *)
ValidWatchlistMovies(watchlistIds, details) ==
    IF Len(watchlistIds) > 0
    THEN Flatten([i \in 1..Len(JsSlice(watchlistIds, 0, 50)) |-> details[i]])
    ELSE <<>>

RECURSIVE UniqueCandidates(_)
(* The reduce of getCandidateMovies: the first record of each id, without  *)
(* the fields the conversion does not copy.                                *)
UniqueCandidates(candidates) ==
    IF candidates = <<>> THEN <<>>
    ELSE LET acc == UniqueCandidates(SubSeq(candidates, 1, Len(candidates) - 1))
             movie == candidates[Len(candidates)]
         IN  IF \E i \in 1..Len(acc) : acc[i].id = movie.id THEN acc
             ELSE Append(acc, [movie EXCEPT !.actors = <<>>, !.director = ""])

Categories == {"because_you_watched", "genre_match", "highly_rated", "trending",
               "similar_taste"}

getCategoryStats(recs) ==
    [c \in Categories |-> Cardinality({i \in 1..Len(recs) : recs[i].category = c})]

(* Math.ceil(a / b) for a >= 0 and b # 0 *)
CeilDiv(a, b) == IF b > 0 THEN (a + b - 1) \div b ELSE 0 - (a \div (0 - b))

NoResponse ==
    [status |-> 0, recommendations |-> <<>>,
     pagination |-> [page |-> 0, limit |-> 0, total |-> 0, totalPages |-> 0],
     preferences |-> <<>>, categories |-> getCategoryStats(<<>>), watchlistSize |-> 0]

(* allRecommendations: what the engine built for the request returns *)
AllRecommendations(req) ==
    LET limitNum == ParseIntOr(req.limit, 20)
        watchlistIds == ParseWatchlistIds(req.watchlist_ids)
        validWatchlistMovies == ValidWatchlistMovies(watchlistIds, req.details)
    IN  generateRecommendations(validWatchlistMovies,
                                analyzePreferences(validWatchlistMovies),
                                UniqueCandidates(req.fetched), limitNum * 3)

FilteredRecommendations(req) ==
    IF req.category # "all"
    THEN SelectSeq(AllRecommendations(req), LAMBDA rec : rec.category = req.category)
    ELSE AllRecommendations(req)

Respond(req) ==
    IF req.method # "GET" THEN [NoResponse EXCEPT !.status = 405]
    ELSE LET limitNum == ParseIntOr(req.limit, 20)
             pageNum == ParseIntOr(req.page, 1)
             watchlistIds == ParseWatchlistIds(req.watchlist_ids)
             validWatchlistMovies == ValidWatchlistMovies(watchlistIds, req.details)
             enginePreferences == analyzePreferences(validWatchlistMovies)
             allRecommendations == AllRecommendations(req)
             filteredRecommendations == FilteredRecommendations(req)
             startIndex == (pageNum - 1) * limitNum
             endIndex == startIndex + limitNum
         IN  [status |-> 200,
              recommendations |-> JsSlice(filteredRecommendations, startIndex, endIndex),
              pagination |-> [page |-> pageNum, limit |-> limitNum,
                              total |-> Len(filteredRecommendations),
                              totalPages |-> CeilDiv(Len(filteredRecommendations), limitNum)],
              preferences |-> enginePreferences,
              categories |-> getCategoryStats(allRecommendations),
              watchlistSize |-> Len(validWatchlistMovies)]

NoRequest ==
    [method |-> "", watchlist_ids |-> [form |-> "none", ids |-> <<>>], details |-> <<>>,
     fetched |-> <<>>, category |-> "all", limit |-> Absent, page |-> Absent]

ApiInit ==
    /\ apiPc = "idle"
    /\ request = NoRequest
    /\ response = NoResponse

Handler(req) ==
    /\ apiPc = "idle"
    /\ apiPc' = "responded"
    /\ request' = req
    /\ response' = Respond(req)

Finish ==
    /\ apiPc = "responded"
    /\ apiPc' = "idle"
    /\ request' = NoRequest
    /\ response' = NoResponse

-----------------------------------------------------------------------------
(* lib/movieApi.ts: convertTMDBToEnhanced, mergeOMDBData and               *)
(* calculateAggregatedScore, with OMDBClient.extractRatings.  Scores on    *)
(* the 0-10 scale are in hundredths (a missing vote_average is 0), scores  *)
(* on the 0-100 scale are whole numbers.  A text of the OMDB record is     *)
(* [kind, n]: "num" a text that starts with the number n, "NA" the text    *)
(* N/A, "text" any other text, "none" a missing field.  An optional        *)
(* sub-rating is <<>> when absent and <<score>> when present.              *)

Txt(kind, n) == [kind |-> kind, n |-> n]

(* parseFloat(text) || 0 and parseInt(text) || 0 *)
ParseOrZero(text) == IF text.kind = "num" THEN text.n ELSE 0

extractRatingsFrom(imdb, entries) ==
    LET last(source) ==
            LET hits == SelectSeq(entries, LAMBDA r : r.Source = source)
            IN  IF hits = <<>> THEN <<>> ELSE <<hits[Len(hits)].Value>>
        first(source) ==
            LET hits == SelectSeq(entries, LAMBDA r : r.Source = source)
            IN  IF hits = <<>> THEN <<>> ELSE <<hits[1].Value>>
    IN  [imdb |-> IF imdb # <<>> THEN imdb ELSE first("Internet Movie Database"),
         rottenTomatoes |-> last("Rotten Tomatoes"),
         metacritic |-> last("Metacritic")]

extractRatings(omdbData) ==
    extractRatingsFrom(
        IF omdbData.imdbRating.kind \notin {"none", "NA"}
        THEN <<omdbData.imdbRating>> ELSE <<>>,
        omdbData.Ratings)

(* The { value, weight } entries pushed, values in hundredths. *)
AggregateEntries(ratings) ==
    (IF ratings.tmdb > 0 THEN <<[value |-> ratings.tmdb, weight |-> 25]>> ELSE <<>>)
    \o (IF ratings.imdb # <<>> /\ ratings.imdb[1] > 0
        THEN <<[value |-> ratings.imdb[1], weight |-> 35]>> ELSE <<>>)
    \o (IF ratings.rottenTomatoes # <<>> /\ ratings.rottenTomatoes[1] > 0
        THEN <<[value |-> ratings.rottenTomatoes[1] * 10, weight |-> 25]>> ELSE <<>>)
    \o (IF ratings.metacritic # <<>> /\ ratings.metacritic[1] > 0
        THEN <<[value |-> ratings.metacritic[1] * 10, weight |-> 15]>> ELSE <<>>)

(* Math.round(x * 10) / 10 for x = num / den hundredths, in hundredths *)
RoundToTenth(num, den) == 10 * ((2 * num + 10 * den) \div (20 * den))

calculateAggregatedScoreUnnormalised(ratings) ==
    LET scores == AggregateEntries(ratings)
        weightedSum == SumSeq([i \in 1..Len(scores) |-> scores[i].value * scores[i].weight])
    IN  IF Len(scores) = 0 THEN 0 ELSE RoundToTenth(weightedSum, 100)

calculateAggregatedScore(ratings) ==
    LET scores == AggregateEntries(ratings)
        totalWeight == SumSeq([i \in 1..Len(scores) |-> scores[i].weight])
        weightedSum == SumSeq([i \in 1..Len(scores) |-> scores[i].value * scores[i].weight])
    IN  IF Len(scores) = 0 THEN 0 ELSE RoundToTenth(weightedSum, totalWeight)

(* Math.round((tmdb * 0.4 + imdb * 0.6) * 10) / 10, or the TMDB rating     *)
(* when there is no IMDB text or it is not a number                        *)
calculateCombinedRating(tmdbRating, imdbRating) ==
    IF imdbRating = <<>> \/ imdbRating[1].kind # "num" THEN tmdbRating
    ELSE RoundToTenth(4 * tmdbRating + 6 * imdbRating[1].n, 10)

convertTMDBToEnhanced(item) ==
    [id |-> item.id,
     vote_average |-> item.vote_average,
     ratings |-> [tmdb |-> item.vote_average, imdb |-> <<>>, rottenTomatoes |-> <<>>,
                  metacritic |-> <<>>],
     combinedRating |-> 0,
     aggregatedScore |-> item.vote_average,
     dataSource |-> "tmdb"]

mergeOMDBData(enhanced_, omdbData) ==
    LET omdbRatings == extractRatings(omdbData)
        parsed(r) == IF r = <<>> THEN <<>> ELSE <<ParseOrZero(r[1])>>
        structuredRatings ==
            [tmdb |-> enhanced_.vote_average,
             imdb |-> parsed(omdbRatings.imdb),
             rottenTomatoes |-> parsed(omdbRatings.rottenTomatoes),
             metacritic |-> parsed(omdbRatings.metacritic)]
    IN  [enhanced_ EXCEPT
            !.ratings = structuredRatings,
            !.combinedRating = calculateCombinedRating(enhanced_.vote_average,
                                                        omdbRatings.imdb),
            !.aggregatedScore = calculateAggregatedScore(structuredRatings),
            !.dataSource = "tmdb+omdb"]

NoItem == [id |-> 0, vote_average |-> 0]

NoEnhanced == convertTMDBToEnhanced(NoItem)

AggIdle ==
    /\ aggPc = "start"
    /\ tmdbItem = NoItem
    /\ enhanced = NoEnhanced

(* getMovieDetails, search and getTrending for one item: the conversion,   *)
(* then either the merge of the OMDB record found or, when OMDB data is    *)
(* not asked for, not found or the lookup fails, the converted item as is. *)
Convert(item) ==
    /\ aggPc = "start"
    /\ tmdbItem' = item
    /\ enhanced' = convertTMDBToEnhanced(item)
    /\ aggPc' = "converted"

Merge(omdbData) ==
    /\ aggPc = "converted"
    /\ enhanced' = mergeOMDBData(enhanced, omdbData)
    /\ aggPc' = "merged"
    /\ UNCHANGED tmdbItem

WithoutOmdb ==
    /\ aggPc = "converted"
    /\ aggPc' = "plain"
    /\ UNCHANGED <<tmdbItem, enhanced>>

NextItem ==
    /\ aggPc \in {"plain", "merged"}
    /\ aggPc' = "start"
    /\ tmdbItem' = NoItem
    /\ enhanced' = NoEnhanced

-----------------------------------------------------------------------------
(* lib/movieApi.ts: search and getTrending over the items of one TMDB      *)
(* result page.  The map callback of an item converts it and, when OMDB    *)
(* data is asked for and the item has a title, awaits                      *)
(* getOMDBDataForMovie; the lookups of the items settle in any order and   *)
(* Promise.all resolves once every callback has.  A lookup settles with a  *)
(* record, with null, or by throwing (the catch block of                   *)
(* getOMDBDataForMovie reads `year`, which is out of its scope, so an      *)
(* OMDBError leaves it as a ReferenceError); the try/catch of the callback *)
(* swallows the throw.                                                     *)

Pending == [kind |-> "pending", record |-> <<>>]

Skipped == [kind |-> "skipped", record |-> <<>>]

Found(record) == [kind |-> "found", record |-> <<record>>]

NoMatch == [kind |-> "null", record |-> <<>>]

Throws == [kind |-> "throws", record |-> <<>>]

NoSearch == [items |-> <<>>, includeOMDBData |-> FALSE]

SearchIdle ==
    /\ searchPc = "idle"
    /\ searchCall = NoSearch
    /\ lookups = <<>>
    /\ mapped = <<>>
    /\ searchResults = <<>>

(* What the callback returns once the lookup has settled: a failed lookup  *)
(* is reported as plain TMDB data too.                                     *)
EnrichedItemMarked(enhanced_, outcome) ==
    IF outcome.kind = "found" THEN mergeOMDBData(enhanced_, outcome.record[1])
    ELSE IF outcome.kind = "throws"
         THEN [enhanced_ EXCEPT !.aggregatedScore = 0, !.dataSource = "tmdb+omdb"]
         ELSE enhanced_

EnrichedItem(enhanced_, outcome) ==
    IF outcome.kind = "found" THEN mergeOMDBData(enhanced_, outcome.record[1])
    ELSE enhanced_

(* tmdbApi.searchMulti / getTrending answered: every callback runs up to   *)
(* its first await.                                                        *)
SearchCall(items, includeOMDBData) ==
    /\ searchPc = "idle"
    /\ searchPc' = "mapping"
    /\ searchCall' = [items |-> items, includeOMDBData |-> includeOMDBData]
    /\ lookups' = [i \in 1..Len(items) |->
                      IF includeOMDBData /\ items[i].title # "" THEN Pending ELSE Skipped]
    /\ mapped' = [i \in 1..Len(items) |->
                     IF includeOMDBData /\ items[i].title # ""
                     THEN <<>> ELSE <<convertTMDBToEnhanced(items[i])>>]
    /\ UNCHANGED searchResults

(* tmdbApi.searchMulti / getTrending threw: the call rejects. *)
SearchFails ==
    /\ searchPc = "idle"
    /\ searchPc' = "rejected"
    /\ UNCHANGED <<searchCall, lookups, mapped, searchResults>>

LookupSettles(i, outcome) ==
    /\ searchPc = "mapping"
    /\ i \in 1..Len(lookups)
    /\ lookups[i] = Pending
    /\ lookups' = [lookups EXCEPT ![i] = outcome]
    /\ mapped' = [mapped EXCEPT ![i] =
                     <<EnrichedItem(convertTMDBToEnhanced(searchCall.items[i]), outcome)>>]
    /\ UNCHANGED <<searchPc, searchCall, searchResults>>

SearchResolves ==
    /\ searchPc = "mapping"
    /\ \A i \in 1..Len(mapped) : mapped[i] # <<>>
    /\ searchPc' = "resolved"
    /\ searchResults' = [i \in 1..Len(mapped) |-> mapped[i][1]]
    /\ UNCHANGED <<searchCall, lookups, mapped>>

SearchReturns ==
    /\ searchPc \in {"resolved", "rejected"}
    /\ searchPc' = "idle"
    /\ searchCall' = NoSearch
    /\ lookups' = <<>>
    /\ mapped' = <<>>
    /\ searchResults' = <<>>

-----------------------------------------------------------------------------
(* context/WatchlistContext.tsx: watchlistReducer and WatchlistProvider.   *)
(* A saved item keeps the fields the reducer reads or writes: id,          *)
(* media_type, added_date, watched and watched_date (<<>> is undefined).   *)
(* Dates are clock ticks.  localStorage holds nothing ("absent"), the JSON *)
(* of a list of items ("json") or text JSON.parse throws on ("corrupt").   *)
(* A context function runs with the state of the last render; its          *)
(* dispatch, the reducer and the re-render are one step, the save effect   *)
(* scheduled by the re-render is the next.                                 *)

WatchlistItem(id, media_type, added_date) ==
    [id |-> id, media_type |-> media_type, added_date |-> added_date,
     watched |-> FALSE, watched_date |-> <<>>]

HasItem(items, id, media_type) ==
    \E i \in 1..Len(items) : items[i].id = id /\ items[i].media_type = media_type

SET_LOADING(st, payload) == [st EXCEPT !.loading = payload]

LOAD_WATCHLIST(st, payload) == [st EXCEPT !.items = payload, !.loading = FALSE]

ADD_ITEM_Unchecked(st, payload) == [st EXCEPT !.items = Append(@, payload)]

ADD_ITEM(st, payload) ==
    IF HasItem(st.items, payload.id, payload.media_type) THEN st
    ELSE [st EXCEPT !.items = Append(@, payload)]

REMOVE_ITEM(st, payload) ==
    [st EXCEPT !.items = SelectSeq(@, LAMBDA item : item.id # payload)]

TOGGLE_WATCHED_KeepDate(st, payload, date) ==
    LET toggled(item) ==
            [item EXCEPT !.watched = payload.watched,
                         !.watched_date = IF payload.watched THEN <<date>>
                                          ELSE item.watched_date]
    IN  [st EXCEPT !.items =
            [i \in 1..Len(st.items) |->
                IF st.items[i].id = payload.id THEN toggled(st.items[i]) ELSE st.items[i]]]

TOGGLE_WATCHED(st, payload, date) ==
    LET toggled(item) ==
            [item EXCEPT !.watched = payload.watched,
                         !.watched_date = IF payload.watched THEN <<date>> ELSE <<>>]
    IN  [st EXCEPT !.items =
            [i \in 1..Len(st.items) |->
                IF st.items[i].id = payload.id THEN toggled(st.items[i]) ELSE st.items[i]]]

CLEAR_WATCHLIST(st) == [st EXCEPT !.items = <<>>]

(* action.now is what new Date() gives inside the reducer *)
watchlistReducer(st, action) ==
    CASE action.type = "SET_LOADING" -> SET_LOADING(st, action.payload)
      [] action.type = "LOAD_WATCHLIST" -> LOAD_WATCHLIST(st, action.payload)
      [] action.type = "ADD_ITEM" -> ADD_ITEM(st, action.payload)
      [] action.type = "REMOVE_ITEM" -> REMOVE_ITEM(st, action.payload)
      [] action.type = "TOGGLE_WATCHED" -> TOGGLE_WATCHED(st, action.payload, action.now)
      [] action.type = "CLEAR_WATCHLIST" -> CLEAR_WATCHLIST(st)
      [] OTHER -> st

Action(type, payload) == [type |-> type, payload |-> payload, now |-> clock]

NothingStored == [kind |-> "absent", items |-> <<>>]

Corrupt == [kind |-> "corrupt", items |-> <<>>]

Stored(items) == [kind |-> "json", items |-> items]

NoCall == [op |-> "none", id |-> 0, media_type |-> "", before |-> <<>>, at |-> 0]

CallOf(op, id, media_type) ==
    [op |-> op, id |-> id, media_type |-> media_type, before |-> closure.items,
     at |-> clock]

InitialState == [items |-> <<>>, loading |-> TRUE]

(* useReducer's initial state and the first commit: both effects pending. *)
Mounted ==
    /\ state = InitialState
    /\ closure = InitialState
    /\ effects = <<"load", "save">>
    /\ lastCall = NoCall
    /\ saveFailed = FALSE

ContextInit(stores) ==
    /\ Mounted
    /\ localStorage \in stores
    /\ clock = 0

(* No provider mounted. *)
ContextUnused ==
    /\ state = InitialState
    /\ closure = InitialState
    /\ effects = <<>>
    /\ localStorage = NothingStored
    /\ clock = 0
    /\ lastCall = NoCall
    /\ saveFailed = FALSE

(* The load effect: reads the stored value and dispatches. *)
LoadEffect ==
    /\ effects # <<>> /\ Head(effects) = "load"
    /\ state' = IF localStorage.kind = "json"
                THEN watchlistReducer(state, Action("LOAD_WATCHLIST", localStorage.items))
                ELSE watchlistReducer(state, Action("SET_LOADING", FALSE))
    /\ effects' = Tail(effects)
    /\ UNCHANGED <<closure, localStorage, clock, lastCall, saveFailed>>

(* The save effect of the last render, without its loading test. *)
SaveEffectUnguarded(throws) ==
    /\ effects = <<"save">>
    /\ effects' = <<>>
    /\ IF ~throws
       THEN localStorage' = Stored(closure.items) /\ saveFailed' = FALSE
       ELSE saveFailed' = TRUE /\ UNCHANGED localStorage
    /\ UNCHANGED <<state, closure, clock, lastCall>>

(* The save effect of the last render; setItem may throw. *)
SaveEffect(throws) ==
    /\ effects = <<"save">>
    /\ effects' = <<>>
    /\ IF closure.loading THEN ~throws /\ UNCHANGED <<localStorage, saveFailed>>
       ELSE IF ~throws
            THEN localStorage' = Stored(closure.items) /\ saveFailed' = FALSE
            ELSE saveFailed' = TRUE /\ UNCHANGED localStorage
    /\ UNCHANGED <<state, closure, clock, lastCall>>

(* The re-render after a dispatch made inside an effect. *)
Render ==
    /\ effects = <<>>
    /\ state # closure
    /\ closure' = state
    /\ effects' = <<"save">>
    /\ UNCHANGED <<state, localStorage, clock, lastCall, saveFailed>>

Quiet == effects = <<>> /\ state = closure

(* dispatch from a context function and the re-render it causes; a state   *)
(* the reducer returned as it was causes none.                             *)
Dispatch(action, same) ==
    /\ state' = watchlistReducer(state, action)
    /\ closure' = state'
    /\ effects' = IF same THEN <<>> ELSE <<"save">>
    /\ UNCHANGED <<localStorage, clock, saveFailed>>

addToWatchlist(id, media_type) ==
    /\ Quiet
    /\ lastCall' = CallOf("add", id, media_type)
    /\ Dispatch(Action("ADD_ITEM", WatchlistItem(id, media_type, clock)),
                HasItem(state.items, id, media_type))

removeFromWatchlist(id) ==
    /\ Quiet
    /\ lastCall' = CallOf("remove", id, "")
    /\ Dispatch(Action("REMOVE_ITEM", id), FALSE)

toggleWatched(id) ==
    /\ Quiet
    /\ lastCall' = CallOf("toggle", id, "")
    /\ LET found == SelectSeq(closure.items, LAMBDA item : item.id = id)
       IN  IF found # <<>>
           THEN Dispatch(Action("TOGGLE_WATCHED",
                                [id |-> id, watched |-> ~found[1].watched]), FALSE)
           ELSE UNCHANGED <<state, closure, effects, localStorage, clock, saveFailed>>

clearWatchlist ==
    /\ Quiet
    /\ lastCall' = CallOf("clear", 0, "")
    /\ Dispatch(Action("CLEAR_WATCHLIST", <<>>), FALSE)

(* The page is loaded again: a new provider over the same localStorage. *)
Remount ==
    /\ Quiet
    /\ state' = InitialState
    /\ closure' = InitialState
    /\ effects' = <<"load", "save">>
    /\ lastCall' = NoCall
    /\ saveFailed' = FALSE
    /\ UNCHANGED <<localStorage, clock>>

-----------------------------------------------------------------------------
(* lib/tmdb.ts: RateLimiter and the start of TMDBClient.makeRequest.  The  *)
(* requests array is a sequence of timestamps in push order.  A caller of  *)
(* makeRequest runs waitIfNeeded up to its await in one step; when it has  *)
(* to wait, its timer is due at the time computed and the rest of          *)
(* waitIfNeeded runs in a later step, once the timer has fired.  The fetch *)
(* follows recordRequest at once.                                          *)

maxRequests == 35

timeWindow == 10000

(* the "+ 100" of waitTime *)
waitBuffer == 100

(* this.requests.filter(time => now - time < this.timeWindow) *)
Recent(times, t) == SelectSeq(times, LAMBDA time : t - time < timeWindow)

(* Math.min(...this.requests) for a non-empty array *)
Oldest(times) == CHOOSE t \in Range(times) : \A u \in Range(times) : t <= u

LimiterIdle ==
    /\ now = 0
    /\ requests = <<>>
    /\ sleeping = <<>>
    /\ sent = <<>>

(* makeRequest: waitIfNeeded up to the await, and recordRequest and the    *)
(* fetch when there is nothing to wait for.                                *)
waitIfNeeded ==
    LET recent == Recent(requests, now)
    IN  IF Len(recent) < maxRequests
        THEN /\ requests' = Append(recent, now)
             /\ sent' = Append(sent, now)
             /\ UNCHANGED <<now, sleeping>>
        ELSE /\ requests' = recent
             /\ sleeping' = Append(sleeping,
                                   now + (timeWindow - (now - Oldest(recent)) + waitBuffer))
             /\ UNCHANGED <<now, sent>>

(* The timer of the caller waiting longest fires: recordRequest, fetch. *)
TimerFires ==
    /\ sleeping # <<>>
    /\ Head(sleeping) <= now
    /\ sleeping' = Tail(sleeping)
    /\ requests' = Append(requests, now)
    /\ sent' = Append(sent, now)
    /\ UNCHANGED now

-----------------------------------------------------------------------------
(* OMDB client (src/unnamed/part_014): OMDBRateLimiter and                 *)
(* OMDBClient.makeRequest, with an API key configured.  A call runs up to  *)
(* its fetch in one step; the answer comes in a later step, and only an    *)
(* answer with an ok status whose body parses is recorded.                 *)

maxRequestsPerDay == 950

dayInMs == 24 * 60 * 60 * 1000

(* this.requests.filter(time => now - time < this.dayInMs) *)
RecentOmdb(times, t) == SelectSeq(times, LAMBDA time : t - time < dayInMs)

Copies(n, t) == [i \in 1..n |-> t]

NoOmdbCall == [result |-> "none", recent |-> 0, sentBefore |-> 0]

OmdbIdle ==
    /\ omdbRequests = <<>>
    /\ inFlight = 0
    /\ omdbSent = <<>>
    /\ omdbCalls = 0
    /\ lastOmdb = NoOmdbCall

(* makeRequest up to the await of fetch: the limiter's test, then either   *)
(* the OMDBError or the request.                                           *)
omdbMakeRequest ==
    LET recent == RecentOmdb(omdbRequests, now)
    IN  /\ omdbRequests' = recent
        /\ omdbCalls' = omdbCalls + 1
        /\ IF Len(recent) < maxRequestsPerDay
           THEN /\ omdbSent' = Append(omdbSent, now)
                /\ inFlight' = inFlight + 1
                /\ lastOmdb' = [result |-> "sent", recent |-> Len(recent),
                                sentBefore |-> Len(omdbSent)]
           ELSE /\ lastOmdb' = [result |-> "OMDBError", recent |-> Len(recent),
                                sentBefore |-> Len(omdbSent)]
                /\ UNCHANGED <<omdbSent, inFlight>>

(* The rest of makeRequest: fetch rejects ("network") or answers with a    *)
(* status that is not ok ("http"): OMDBError, nothing recorded; the body   *)
(* is read: recordRequest, then the data ("data") or the OMDBError of a    *)
(* Response of 'False' ("false").                                          *)
omdbAnswer(outcome) ==
    /\ inFlight > 0
    /\ inFlight' = inFlight - 1
    /\ omdbRequests' = IF outcome \in {"data", "false"}
                       THEN Append(omdbRequests, now) ELSE omdbRequests
    /\ UNCHANGED <<omdbSent, omdbCalls, lastOmdb>>

(* n calls of makeRequest made one after the other at one instant, each    *)
(* answered with data before the next is made, while the limiter has room  *)
(* for all of them.                                                        *)
omdbAnswered(n) ==
    LET recent == RecentOmdb(omdbRequests, now)
    IN  /\ inFlight = 0
        /\ Len(recent) + n <= maxRequestsPerDay
        /\ omdbRequests' = recent \o Copies(n, now)
        /\ omdbSent' = omdbSent \o Copies(n, now)
        /\ lastOmdb' = [result |-> "sent", recent |-> Len(recent) + n - 1,
                        sentBefore |-> Len(omdbSent) + n - 1]
        /\ UNCHANGED <<inFlight, omdbCalls>>

LaterIdle == SearchIdle /\ ContextUnused /\ LimiterIdle /\ OmdbIdle

-----------------------------------------------------------------------------
(* Spec: one engine, "A", constructed with any watchlist and then used in  *)
(* any order; engine "B" is never touched.                                 *)

Init ==
    /\ EngineInit({[e \in Engines |-> IF e = "A" THEN w ELSE <<>>] : w \in Watchlists})
    /\ ApiInit
    /\ AggIdle
    /\ LaterIdle

Idle == \A e \in Engines : pc[e] = "idle"

Update ==
    /\ Idle
    /\ \E w \in Watchlists : updateWatchlist("A", w) /\ UNCHANGED notEngine

Call ==
    /\ Idle
    /\ \E c \in CandidatePools, l \in Limits : Generate({"A"}, c, l) /\ UNCHANGED notEngine

Done == Return /\ UNCHANGED notEngine

Next == Update \/ Call \/ Done

Spec == Init /\ [][Next]_vars

(* SpecTwo: two engines side by side, each with its own history of         *)
(* updateWatchlist calls; a call is made on one engine or, with the same   *)
(* arguments, on both.                                                     *)

CatalogTwo == {m \in Catalog : m.id \in {1, 2, 3}}

WatchlistsTwo == SeqsUpTo(CatalogTwo, MaxWatch - 1)

CandidatePoolsTwo == SeqsUpTo(CatalogTwo, MaxCand - 1)

InitTwo ==
    /\ EngineInit([Engines -> WatchlistsTwo])
    /\ ApiInit
    /\ AggIdle
    /\ LaterIdle

UpdateTwo ==
    /\ Idle
    /\ \E e \in Engines, w \in WatchlistsTwo : updateWatchlist(e, w) /\ UNCHANGED notEngine

CallTwo ==
    /\ Idle
    /\ \E E \in SUBSET Engines \ {{}}, c \in CandidatePoolsTwo, l \in Limits :
          Generate(E, c, l) /\ UNCHANGED notEngine

NextTwo == UpdateTwo \/ CallTwo \/ Done

SpecTwo == InitTwo /\ [][NextTwo]_vars

-----------------------------------------------------------------------------
(* Properties of the engine. *)

Returned(e) == pc[e] = "returned"

RecIds(e) == {recommendations[e][i].movie.id : i \in 1..Len(recommendations[e])}

WatchIds(e) == {watchlist[e][i].id : i \in 1..Len(watchlist[e])}

(* C1: in personalized mode no returned recommendation has the id of an    *)
(* item of the engine's watchlist.                                         *)
C1_Dedup ==
    \A e \in Engines :
        (Returned(e) /\ watchlist[e] # <<>>) => RecIds(e) \cap WatchIds(e) = {}

(* A personalized call whose pool holds a saved id and that still returned *)
(* something.                                                              *)
C1_Witness ==
    /\ Returned("A") /\ mode["A"] = "personalized"
    /\ \E i \in 1..Len(candidateMovies) : candidateMovies[i].id \in WatchIds("A")
    /\ recommendations["A"] # <<>>

AtLeast03(score) == score.num * 10 >= 3 * score.den

C3_ScoreBounds ==
    \A e \in Engines : \A i \in 1..Len(scored[e]) :
        /\ scored[e][i].score.num >= 0
        /\ scored[e][i].score.num <= scored[e][i].score.den

(* A call that scored one candidate 0 and another strictly between 0 and 1 *)
C3_Witness ==
    /\ Returned("A")
    /\ \E i, j \in 1..Len(scored["A"]) :
          /\ scored["A"][i].score.num = 0
          /\ scored["A"][j].score.num > 0
          /\ scored["A"][j].score.num < scored["A"][j].score.den

(* C4: an engine with an empty watchlist has null preferences, and a call  *)
(* it serves returns at most limit items, each categorized trending with   *)
(* the single reason of confidence 0.8, in order of non-increasing         *)
(* popularity.                                                             *)
C4_ColdStart ==
    \A e \in Engines :
        watchlist[e] = <<>> =>
            /\ preferences[e] = <<>>
            /\ Returned(e) =>
                 LET recs == recommendations[e]
                 IN  /\ Len(recs) <= limit
                     /\ \A i \in 1..Len(recs) :
                           /\ recs[i].category = "trending"
                           /\ Len(recs[i].reasons) = 1
                           /\ recs[i].reasons[1].confidence.num * 10
                                = 8 * recs[i].reasons[1].confidence.den
                     /\ \A i, j \in 1..Len(recs) :
                           i < j => recs[i].movie.popularity >= recs[j].movie.popularity

(* A cold-start call that had to reorder its pool, and one that had to cut *)
(* it to the limit.                                                        *)
C4_Witness ==
    /\ Returned("A") /\ watchlist["A"] = <<>>
    /\ Len(candidateMovies) = 2
    /\ candidateMovies[1].popularity < candidateMovies[2].popularity
    /\ candidateMovies[1].popularity > 100
    /\ Len(recommendations["A"]) = limit
    /\ limit = 1

(* C5 as stated: cold-start mode returns a non-empty list for every        *)
(* non-empty pool and limit >= 1.                                          *)
C5_ColdStartNonEmpty ==
    \A e \in Engines :
        (Returned(e) /\ watchlist[e] = <<>> /\ candidateMovies # <<>> /\ limit >= 1)
            => recommendations[e] # <<>>

(* C5 amended: cold-start mode returns a non-empty list when limit >= 1    *)
(* and some candidate has popularity above 100.                            *)
C5_ColdStartNonEmptyIfPopular ==
    \A e \in Engines :
        ( /\ Returned(e) /\ watchlist[e] = <<>> /\ limit >= 1
          /\ \E i \in 1..Len(candidateMovies) : candidateMovies[i].popularity > 100 )
            => recommendations[e] # <<>>

(* A cold-start call on a pool with one candidate above and one below the  *)
(* popularity floor.                                                       *)
C5_Witness ==
    /\ Returned("A") /\ watchlist["A"] = <<>> /\ limit >= 1
    /\ \E i, j \in 1..Len(candidateMovies) :
          /\ candidateMovies[i].popularity > 100
          /\ candidateMovies[i].popularity < 300
          /\ candidateMovies[j].popularity <= 100
    /\ Len(recommendations["A"]) = 1

(* C7: preferences is null exactly when the current watchlist is empty,    *)
(* and a call runs cold-start when the current watchlist is empty and      *)
(* personalized otherwise.                                                 *)
C7_ModeSelection ==
    \A e \in Engines :
        /\ preferences[e] = <<>> <=> watchlist[e] = <<>>
        /\ Returned(e) =>
             mode[e] = IF watchlist[e] = <<>> THEN "cold" ELSE "personalized"

(* Calls served after an updateWatchlist, in each mode: cold-start results *)
(* carry the trending reason, personalized ones never do.                  *)
C7_Witness ==
    /\ Returned("A") /\ updated["A"]
    /\ mode["A"] = "personalized"
    /\ recommendations["A"] # <<>>

SameRational(a, b) == a.num * b.den = b.num * a.den

(* totalRating / count: the average rating that enters the weight of g *)
GenreAverage(w, g) ==
    [num |-> GenreCount(w)[g].totalRating, den |-> GenreCount(w)[g].count]

(* C10, the saved-item half: saving one more item rated 0 changes neither  *)
(* averageRating nor the average rating used in the weight of any genre.   *)
C10_ZeroRatedItemIgnored ==
    [][\A e \in Engines : \A z \in Catalog :
          ( /\ z.vote_average = 0
            /\ watchlist[e] # <<>>
            /\ watchlist'[e] = Append(watchlist[e], z) )
          => /\ SameRational(preferences'[e][1].averageRating,
                             preferences[e][1].averageRating)
             /\ \A g \in DOMAIN GenreCount(watchlist[e]) :
                   SameRational(GenreAverage(watchlist'[e], g),
                                GenreAverage(watchlist[e], g))]_vars

(* C8: two engines holding equal watchlists have equal preferences and     *)
(* return equal results for equal arguments, whatever calls each served.   *)
C8_Determinism ==
    \A e1, e2 \in Engines :
        watchlist[e1] = watchlist[e2] =>
            /\ preferences[e1] = preferences[e2]
            /\ (Returned(e1) /\ Returned(e2)) =>
                   recommendations[e1] = recommendations[e2]

(* Both engines called on equal non-empty watchlists, one of them after an *)
(* updateWatchlist and the other as constructed.                           *)
C8_Witness ==
    /\ watchlist["A"] = watchlist["B"] /\ watchlist["A"] # <<>>
    /\ Returned("A") /\ Returned("B")
    /\ updated["A"] /\ ~updated["B"]
    /\ recommendations["A"] # <<>>

-----------------------------------------------------------------------------
(* SpecApi: the recommendations route serving one request after another.   *)

ApiIds == {1, 2}

CatalogApi == {m \in Catalog : m.id \in {1, 2, 3}}

IdParams ==
    {[form |-> "none", ids |-> <<>>]}
        \cup {[form |-> "list", ids |-> ids] : ids \in SeqsUpTo(ApiIds, MaxIds)}
        \cup {[form |-> "bare", ids |-> <<id>>] : id \in ApiIds}

(* Outcomes of the lookups of the ids the route looks up. *)
Lookups(param) ==
    LET ids == JsSlice(ParseWatchlistIds(param), 0, 50)
    IN  {d \in [1..Len(ids) -> {<<>>} \cup {<<m>> : m \in CatalogApi}] :
            \A i \in 1..Len(ids) : d[i] # <<>> => d[i][1].id = ids[i]}

LimitParams ==
    {Absent, Param("text", 0), Param("number", 0 - 1), Param("number", 1), Param("number", 2)}

PageParams == {Absent, Param("number", 0 - 1), Param("number", 1), Param("number", 2)}

Request(method, ids, d, f, c, l, pg) ==
    [method |-> method, watchlist_ids |-> ids, details |-> d, fetched |-> f,
     category |-> c, limit |-> l, page |-> pg]

EngineUnused == EngineInit({[e \in Engines |-> <<>>]})

InitApi == EngineUnused /\ ApiInit /\ AggIdle /\ LaterIdle

Handle ==
    /\ apiPc = "idle"
    /\ \E ids \in IdParams :
          \E d \in Lookups(ids), f \in SeqsUpTo(CatalogApi, MaxCand),
             c \in {"all", "trending", "genre_match", "because_you_watched"},
             l \in LimitParams,
             pg \in PageParams :
              Handler(Request("GET", ids, d, f, c, l, pg))
    /\ UNCHANGED notApi

Reject ==
    /\ apiPc = "idle"
    /\ Handler([NoRequest EXCEPT !.method = "POST"])
    /\ UNCHANGED notApi

Answer == Finish /\ UNCHANGED notApi

NextApi == Handle \/ Reject \/ Answer

SpecApi == InitApi /\ [][NextApi]_vars

(* C6: no recommendation of a response has an id that is among the         *)
(* watchlist_ids of its request.                                           *)
C6_ApiExcludesSaved ==
    apiPc = "responded" =>
        \A i \in 1..Len(response.recommendations) :
            response.recommendations[i].movie.id \notin Range(request.watchlist_ids.ids)

-----------------------------------------------------------------------------
(* SpecAgg: items enriched one after another.                              *)

VoteAverages == {0, 734, 735, 780, 1000}

TmdbItems == {[id |-> 1, vote_average |-> v] : v \in VoteAverages}

ImdbTexts == {Txt("none", 0), Txt("NA", 0), Txt("text", 0), Txt("num", 780), Txt("num", 0)}

RatingEntries ==
    {[Source |-> "Rotten Tomatoes", Value |-> v] :
        v \in {Txt("num", 85), Txt("num", 0), Txt("NA", 0)}}
    \cup {[Source |-> "Metacritic", Value |-> v] : v \in {Txt("num", 74), Txt("text", 0)}}
    \cup {[Source |-> "Internet Movie Database", Value |-> v] : v \in {Txt("num", 810)}}

MaxRatings == 2    \* longest Ratings array of an OMDB record

OmdbRecords ==
    {[imdbRating |-> t, Ratings |-> r] :
        t \in ImdbTexts, r \in SeqsUpTo(RatingEntries, MaxRatings)}

InitAgg == EngineUnused /\ ApiInit /\ AggIdle /\ LaterIdle

Converted == \E item \in TmdbItems : Convert(item) /\ UNCHANGED notAgg

Merged == \E omdbData \in OmdbRecords : Merge(omdbData) /\ UNCHANGED notAgg

Unmerged == WithoutOmdb /\ UNCHANGED notAgg

Another == NextItem /\ UNCHANGED notAgg

NextAgg == Converted \/ Merged \/ Unmerged \/ Another

SpecAgg == InitAgg /\ [][NextAgg]_vars

(* The scores, on the 0-10 scale in hundredths, of the providers that have *)
(* a rating in the item's ratings object.                                  *)
ProviderScores ==
    LET r == enhanced.ratings
    IN  [p \in {"tmdb", "imdb", "rottenTomatoes", "metacritic"} |->
            CASE p = "tmdb" -> r.tmdb
              [] p = "imdb" -> IF r.imdb = <<>> THEN 0 ELSE r.imdb[1]
              [] p = "rottenTomatoes" ->
                    IF r.rottenTomatoes = <<>> THEN 0 ELSE r.rottenTomatoes[1] * 10
              [] p = "metacritic" ->
                    IF r.metacritic = <<>> THEN 0 ELSE r.metacritic[1] * 10]

Rated == {p \in DOMAIN ProviderScores : ProviderScores[p] > 0}

Enriched == aggPc \in {"converted", "plain", "merged"}

(* C9 as stated: with exactly one provider rated, aggregatedScore equals   *)
(* that provider's score on the 0-10 scale.                                *)
C9_SingleProviderExact ==
    (Enriched /\ Cardinality(Rated) = 1) =>
        \A p \in Rated : enhanced.aggregatedScore = ProviderScores[p]

(* C9 amended: with exactly one provider rated, aggregatedScore is that    *)
(* provider's score on the 0-10 scale, rounded to one decimal when the     *)
(* item was merged with an OMDB record and as it is otherwise.             *)
C9_SingleProviderRounded ==
    (Enriched /\ Cardinality(Rated) = 1) =>
        \A p \in Rated :
            enhanced.aggregatedScore =
                IF enhanced.dataSource = "tmdb+omdb"
                THEN 10 * ((ProviderScores[p] + 5) \div 10)
                ELSE ProviderScores[p]

(* A merged item whose only rating is the Rotten Tomatoes one. *)
C9_Witness ==
    /\ aggPc = "merged"
    /\ Rated = {"rottenTomatoes"}
    /\ enhanced.aggregatedScore = 850

(* C10, the provider half: a provider whose score is 0 leaves              *)
(* aggregatedScore as it is without that provider.                         *)
C10_ZeroProviderIgnored ==
    aggPc = "merged" =>
        LET r == enhanced.ratings
            drop(x) == IF x # <<>> /\ x[1] = 0 THEN <<>> ELSE x
        IN  enhanced.aggregatedScore =
                calculateAggregatedScore([tmdb |-> r.tmdb, imdb |-> drop(r.imdb),
                                          rottenTomatoes |-> drop(r.rottenTomatoes),
                                          metacritic |-> drop(r.metacritic)])

-----------------------------------------------------------------------------
(* SpecScore: one engine, "A", over a catalog made for the scoring rules:  *)
(* the saved item and the candidate of the worked example (ids 1 and 2), a *)
(* twin of the candidate with a rating below the band (id 8), candidates   *)
(* without a rating (id 5), without popularity (id 7) and without any      *)
(* field but the id (id 10).                                               *)

CatalogScore ==
    { Movie(1, {28}, 900, 2020, 700, <<>>, "", "en"),
      Movie(2, {28}, 850, 2021, 600, <<>>, "", "en"),
      Movie(8, {28}, 300, 2021, 600, <<>>, "", "en"),
      Movie(5, {28}, 0, 2022, 900, <<>>, "", ""),
      Movie(7, {18}, 600, 2022, 0, <<>>, "", ""),
      Movie(10, {}, 0, 0, 0, <<>>, "", "") }

WatchlistsScore == SeqsUpTo(CatalogScore, MaxWatch)

CandidatePoolsScore == PoolsUpTo(CatalogScore, MaxCand)

InitScore ==
    /\ EngineInit({[e \in Engines |-> IF e = "A" THEN w ELSE <<>>] : w \in WatchlistsScore})
    /\ ApiInit
    /\ AggIdle
    /\ LaterIdle

UpdateScore ==
    /\ Idle
    /\ \E w \in WatchlistsScore : updateWatchlist("A", w) /\ UNCHANGED notEngine

CallScore ==
    /\ Idle
    /\ \E c \in CandidatePoolsScore, l \in Limits :
          Generate({"A"}, c, l) /\ UNCHANGED notEngine

NextScore == UpdateScore \/ CallScore \/ Done

SpecScore == InitScore /\ [][NextScore]_vars

Personalized(e) == Returned(e) /\ mode[e] = "personalized"

(* The call was given a limit that cuts nothing off. *)
Uncut == limit >= Len(candidateMovies)

IsReturned(e, movie) ==
    \E j \in 1..Len(recommendations[e]) : recommendations[e][j].movie = movie

(* C11: in personalized mode with limit at least the number of candidates, *)
(* a candidate that is not in the watchlist is in the output if and only   *)
(* if its score is >= 0.3.                                                 *)
C11_CutoffInclusive ==
    \A e \in Engines :
        (Personalized(e) /\ Uncut) =>
            \A k \in 1..Len(scored[e]) :
                IsReturned(e, scored[e][k].movie) <=> AtLeast03(scored[e][k].score)

(* C12: in personalized mode the output is in order of non-increasing      *)
(* score, has at most limit entries, each of them a scored candidate, and  *)
(* no candidate that is not saved, reaches the cutoff and was left out has *)
(* a strictly higher score than a returned one.                            *)
C12_RankingAndTruncation ==
    \A e \in Engines :
        Personalized(e) =>
            LET recs == recommendations[e]
            IN  /\ Len(recs) <= limit
                /\ \A i \in 1..Len(recs) : \E k \in 1..Len(scored[e]) : recs[i] = scored[e][k]
                /\ \A i, j \in 1..Len(recs) :
                      i < j => /\ recs[i].score.den = recs[j].score.den
                               /\ recs[i].score.num >= recs[j].score.num
                /\ \A k \in 1..Len(scored[e]) :
                      (AtLeast03(scored[e][k].score) /\ ~IsReturned(e, scored[e][k].movie))
                          => \A j \in 1..Len(recs) :
                                /\ scored[e][k].score.den = recs[j].score.den
                                /\ scored[e][k].score.num <= recs[j].score.num

(* A personalized call with limit 1 on a pool whose second candidate       *)
(* outscores its first, both above the cutoff: the second is returned.     *)
C12_Witness ==
    /\ Personalized("A") /\ limit = 1
    /\ Len(scored["A"]) = 2
    /\ AboveThreshold(scored["A"][1].score)
    /\ scored["A"][1].score.num < scored["A"][2].score.num
    /\ recommendations["A"] = <<scored["A"][2]>>

(* C13: every scored item has the one category its priority rule gives:   *)
(* genre_match when one of its reasons is a genre reason of confidence     *)
(* above 0.7, else highly_rated when its rating is at least 8, else        *)
(* trending when its popularity is above 500, else similar_taste.          *)
C13_CategoryPriority ==
    \A e \in Engines : \A k \in 1..Len(scored[e]) :
        LET rec == scored[e][k]
            strong == \E i \in 1..Len(rec.reasons) :
                         /\ rec.reasons[i].type = "genre"
                         /\ rec.reasons[i].confidence.num * 10
                              > 7 * rec.reasons[i].confidence.den
        IN  rec.category =
                IF strong THEN "genre_match"
                ELSE IF rec.movie.vote_average >= 800 THEN "highly_rated"
                ELSE IF rec.movie.popularity > 500 THEN "trending"
                ELSE "similar_taste"

(* One call that scored a popular candidate genre_match and another        *)
(* popular one, rated 8 or more, highly_rated.                             *)
C13_Witness ==
    /\ Personalized("A")
    /\ \E i, j \in 1..Len(scored["A"]) :
          /\ scored["A"][i].category = "genre_match"
          /\ scored["A"][i].movie.popularity > 500
          /\ scored["A"][j].category = "highly_rated"
          /\ scored["A"][j].movie.popularity > 500

-----------------------------------------------------------------------------
(* SpecProfile: the taste profile of one engine, "A", whose watchlist      *)
(* holds a movie at most once and grows and shrinks by one item at a time, *)
(* as the saved list of the app does; every change goes through            *)
(* updateWatchlist.                                                        *)

MaxSaved == 4      \* longest watchlist of SpecProfile

CatalogProfile ==
    { Movie(1, {28}, 900, 2020, 700, <<>>, "", "en"),
      Movie(11, {28}, 100, 2021, 0, <<>>, "", ""),
      Movie(12, {35}, 0, 2021, 0, <<>>, "", ""),
      Movie(13, {12, 16, 18, 28, 35, 80}, 800, 2010, 0, <<>>, "", ""),
      Movie(14, {}, 0, 0, 0, <<>>, "", "") }

WatchlistsProfile == PoolsUpTo(CatalogProfile, MaxSaved)

InitProfile ==
    /\ EngineInit({[e \in Engines |-> IF e = "A" THEN w ELSE <<>>] :
                      w \in WatchlistsProfile})
    /\ ApiInit
    /\ AggIdle
    /\ LaterIdle

SaveItem ==
    /\ Idle
    /\ Len(watchlist["A"]) < MaxSaved
    /\ \E m \in CatalogProfile :
          /\ ~InWatchlist(watchlist["A"], m)
          /\ updateWatchlist("A", Append(watchlist["A"], m))
          /\ UNCHANGED notEngine

RemoveItem ==
    /\ Idle
    /\ \E i \in 1..Len(watchlist["A"]) :
          /\ updateWatchlist("A", SubSeq(watchlist["A"], 1, i - 1)
                                    \o SubSeq(watchlist["A"], i + 1, Len(watchlist["A"])))
          /\ UNCHANGED notEngine

NextProfile == SaveItem \/ RemoveItem

SpecProfile == InitProfile /\ [][NextProfile]_vars

(* The release years of a watchlist that the profile takes into account. *)
YearsOf(w) == {w[i].year : i \in 1..Len(w)} \ {y \in 0..1900 : TRUE}

(* The smallest k with k >= 0.7 * n *)
SeventyPercent(n) == CHOOSE k \in 0..n : 10 * k >= 7 * n /\ 10 * (k - 1) < 7 * n

(* C14: for a watchlist with a release year, preferredYearRange.min is the *)
(* smallest of the most recent ceil(70%) of its distinct release years and *)
(* preferredYearRange.max is the current year.                             *)
C14_YearBandDistinct ==
    \A e \in Engines :
        (preferences[e] # <<>> /\ YearsOf(watchlist[e]) # {}) =>
            LET years == YearsOf(watchlist[e])
                k == SeventyPercent(Cardinality(years))
                range == preferences[e][1].preferredYearRange
            IN  /\ range.min \in years
                /\ Cardinality({y \in years : y >= range.min}) = k
                /\ range.max = CurrentYear

PositiveRatings(w) ==
    SelectSeq([i \in 1..Len(w) |-> w[i].vote_average], LAMBDA r : r > 0)

(* min = max(avg - 1.5, 0) and max = 10, ratings in hundredths *)
BandOf(range, avg) ==
    /\ range.min.num * avg.den = Max(avg.num - 150 * avg.den, 0) * range.min.den
    /\ range.max = 1000

(* C15 as stated: for every non-empty watchlist averageRating is the mean  *)
(* of the ratings above 0, preferredRatingRange.min is                     *)
(* max(averageRating - 1.5, 0) and preferredRatingRange.max is 10.         *)
C15_RatingBand ==
    \A e \in Engines :
        watchlist[e] # <<>> =>
            LET ratings == PositiveRatings(watchlist[e])
                prefs == preferences[e][1]
            IN  /\ Len(ratings) > 0
                /\ prefs.averageRating.num * Len(ratings)
                     = SumSeq(ratings) * prefs.averageRating.den
                /\ BandOf(prefs.preferredRatingRange, prefs.averageRating)

(* C15 amended: averageRating is the mean of the ratings above 0, or 7     *)
(* when no saved item has one; the band is [max(averageRating - 1.5, 0),   *)
(* 10] in both cases.                                                      *)
C15_RatingBandOrDefault ==
    \A e \in Engines :
        watchlist[e] # <<>> =>
            LET ratings == PositiveRatings(watchlist[e])
                prefs == preferences[e][1]
            IN  /\ prefs.averageRating.den > 0
                /\ IF Len(ratings) > 0
                   THEN prefs.averageRating.num * Len(ratings)
                          = SumSeq(ratings) * prefs.averageRating.den
                   ELSE prefs.averageRating.num = 700 * prefs.averageRating.den
                /\ BandOf(prefs.preferredRatingRange, prefs.averageRating)

(* A watchlist of a rated and an unrated item whose mean, 1.0, puts the    *)
(* lower bound on the floor.                                               *)
C15_Witness ==
    /\ updated["A"]
    /\ Len(watchlist["A"]) = 2
    /\ Len(PositiveRatings(watchlist["A"])) = 1
    /\ preferences["A"][1].averageRating.num = 100 * preferences["A"][1].averageRating.den
    /\ preferences["A"][1].preferredRatingRange.min.num = 0

(* C16: the weight of every favorite genre is (items with the genre /     *)
(* watchlist size) * (mean rating of those items / 10); a single saved     *)
(* item of genre 28 rated 9.0 gives favoriteGenres[0] = {28, 0.9};         *)
(* favoriteGenres holds the 5 highest weights (all when there are fewer    *)
(* genres), highest first, each genre once.                                *)
C16_GenreWeights ==
    \A e \in Engines :
        watchlist[e] # <<>> =>
            LET w == watchlist[e]
                n == Len(w)
                fav == preferences[e][1].favoriteGenres
                ids == UNION {w[i].genre_ids : i \in 1..n}
                items(g) == {i \in 1..n : g \in w[i].genre_ids}
                ratingsOf(g) == SelectSeq(w, LAMBDA m : g \in m.genre_ids)
                total(g) == SumSeq([i \in 1..Len(ratingsOf(g)) |->
                                       ratingsOf(g)[i].vote_average])
                kept == {fav[i].id : i \in 1..Len(fav)}
            IN  /\ Len(fav) = Min(5, Cardinality(ids))
                /\ Cardinality(kept) = Len(fav)
                /\ \A i \in 1..Len(fav) :
                      /\ fav[i].id \in ids
                      /\ fav[i].weight * n * Cardinality(items(fav[i].id)) * 1000
                           = WeightDen(n) * Cardinality(items(fav[i].id)) * total(fav[i].id)
                /\ \A i, j \in 1..Len(fav) : i < j => fav[i].weight >= fav[j].weight
                /\ \A g \in ids \ kept : \A i \in 1..Len(fav) : total(g) <= fav[i].weight
                /\ ( /\ n = 1 /\ w[1].genre_ids = {28} /\ w[1].vote_average = 900 )
                     => /\ fav[1].id = 28
                        /\ fav[1].weight * 10 = 9 * WeightDen(n)

(* A watchlist of six genres, one of them weightier than the rest: it      *)
(* comes first and one of the others is cut.                               *)
C16_Witness ==
    /\ updated["A"]
    /\ Len(watchlist["A"]) = 2
    /\ Cardinality(UNION {watchlist["A"][i].genre_ids : i \in 1..2}) = 6
    /\ Len(preferences["A"][1].favoriteGenres) = 5
    /\ preferences["A"][1].favoriteGenres[1].id = 28
    /\ preferences["A"][1].favoriteGenres[1].weight
         > preferences["A"][1].favoriteGenres[2].weight

(* The profile of the worked example: genre 28 with weight 0.9 the only    *)
(* favorite genre, rating band 7.5-10, no cast or crew preferences.        *)
ScenarioProfile(e) ==
    /\ preferences[e] # <<>>
    /\ LET prefs == preferences[e][1]
       IN  /\ Len(prefs.favoriteGenres) = 1
           /\ prefs.favoriteGenres[1].id = 28
           /\ prefs.favoriteGenres[1].weight * 10 = 9 * WeightDen(prefs.totalWatched)
           /\ prefs.preferredRatingRange.min.num = 750 * prefs.preferredRatingRange.min.den
           /\ prefs.preferredRatingRange.max = 1000
           /\ prefs.actorPreferences = <<>>
           /\ prefs.directorPreferences = <<>>

InYearBand(e, movie) ==
    /\ movie.year # 0
    /\ movie.year >= preferences[e][1].preferredYearRange.min
    /\ movie.year <= preferences[e][1].preferredYearRange.max

(* 0.40 * genre + 0.25 * rating + 0.15 * year + 0.10 * popularity under    *)
(* the profile of the worked example, in units of 1/20000                  *)
ScenarioSum(e, movie) ==
    (IF 28 \in movie.genre_ids THEN 7200 \div Cardinality(movie.genre_ids) ELSE 0)
    + (IF movie.vote_average >= 750 /\ movie.vote_average <= 1000
       THEN 5 * movie.vote_average ELSE 0)
    + (IF InYearBand(e, movie) THEN 3000 ELSE 0)
    + 2 * Min(movie.popularity, 1000)

(* C17: under the profile of the worked example the score of every         *)
(* candidate, whichever of its fields are missing, is 0.40 * genre + 0.25  *)
(* * rating + 0.15 * year + 0.10 * popularity + 0.10 * people over 1.0;    *)
(* the candidate {genre 28, rating 8.5, year in the band, popularity 600,  *)
(* no cast} scores 0.7825, has category genre_match and is returned.       *)
C17_WeightedSum ==
    \A e \in Engines :
        (Personalized(e) /\ ScenarioProfile(e)) =>
            \A k \in 1..Len(scored[e]) :
                LET rec == scored[e][k]
                    m == rec.movie
                IN  /\ rec.score.den % 20000 = 0
                    /\ rec.score.num = ScenarioSum(e, m) * (rec.score.den \div 20000)
                    /\ ( /\ m.genre_ids = {28} /\ m.vote_average = 850
                         /\ InYearBand(e, m) /\ m.popularity = 600
                         /\ m.actors = <<>> /\ m.director = "" )
                         => /\ rec.score.num * 400 = 313 * rec.score.den   \* 0.7825
                            /\ rec.category = "genre_match"
                            /\ (Uncut => IsReturned(e, m))

(* The worked example next to a candidate without genre, popularity and    *)
(* cast that scores 0.15 for its year alone.                               *)
C17_Witness ==
    /\ Personalized("A") /\ ScenarioProfile("A") /\ Uncut
    /\ \E i, j \in 1..Len(scored["A"]) :
          /\ scored["A"][i].score.num * 400 = 313 * scored["A"][i].score.den
          /\ IsReturned("A", scored["A"][i].movie)
          /\ scored["A"][j].movie.popularity = 0
          /\ scored["A"][j].score.num * 100 = 15 * scored["A"][j].score.den

(* Two candidates alike in everything the score looks at but the rating,   *)
(* both rated.                                                             *)
Twins(a, b) ==
    /\ a.vote_average # 0 /\ b.vote_average # 0
    /\ [a EXCEPT !.id = 0, !.vote_average = 0] = [b EXCEPT !.id = 0, !.vote_average = 0]

InBand(e, movie) ==
    LET range == preferences[e][1].preferredRatingRange
    IN  /\ movie.vote_average * range.min.den >= range.min.num
        /\ movie.vote_average <= range.max

(* min(rating / 10, 1) inside the band and 0 outside it, in thousandths *)
RatingShare(e, movie) == IF InBand(e, movie) THEN Min(movie.vote_average, 1000) ELSE 0

(* C18: of two candidates that differ in their rating only, the scores     *)
(* differ by the rating terms alone, and the rating term is                *)
(* min(rating / 10, 1) * 0.25 inside preferredRatingRange and exactly 0    *)
(* outside it.                                                             *)
C18_RatingHardGate ==
    \A e \in Engines :
        Personalized(e) =>
            \A i, j \in 1..Len(scored[e]) :
                LET a == scored[e][i]
                    b == scored[e][j]
                IN  Twins(a.movie, b.movie) =>
                        /\ a.score.den = b.score.den
                        /\ 4000 * (b.score.num - a.score.num)
                             = (RatingShare(e, b.movie) - RatingShare(e, a.movie)) * a.score.den

(* Twins rated 8.5 and 3.0 under a band that holds only the first: both    *)
(* are returned, 0.2125 apart.                                             *)
C18_Witness ==
    /\ Personalized("A") /\ Len(recommendations["A"]) = 2
    /\ LET a == recommendations["A"][1]
           b == recommendations["A"][2]
       IN  /\ Twins(a.movie, b.movie)
           /\ InBand("A", a.movie) /\ ~InBand("A", b.movie)
           /\ (a.score.num - b.score.num) * 80 = 17 * a.score.den   \* 0.2125

(* The weights, in percent, of the dimensions a candidate has no data for. *)
MissingWeight(movie) ==
    (IF movie.genre_ids = {} THEN 40 ELSE 0)
    + (IF movie.vote_average = 0 THEN 25 ELSE 0)
    + (IF movie.year = 0 THEN 15 ELSE 0)
    + (IF movie.popularity = 0 THEN 10 ELSE 0)
    + (IF movie.actors = <<>> /\ movie.director = "" THEN 10 ELSE 0)

(* C19: a personalized call returns, having scored every candidate that is *)
(* not saved, in pool order, whatever fields it lacks; a missing dimension *)
(* adds nothing to the score; and a candidate with missing fields is       *)
(* returned like any other when its score is above the cutoff.             *)
C19_MissingFieldsScored ==
    \A e \in Engines :
        Personalized(e) =>
            /\ [k \in 1..Len(scored[e]) |-> scored[e][k].movie]
                 = SelectSeq(candidateMovies, LAMBDA m : m.id \notin WatchIds(e))
            /\ \A k \in 1..Len(scored[e]) :
                  LET rec == scored[e][k]
                  IN  /\ rec.score.num >= 0
                      /\ 100 * rec.score.num
                           <= (100 - MissingWeight(rec.movie)) * rec.score.den
                      /\ (Uncut /\ AboveThreshold(rec.score)) => IsReturned(e, rec.movie)

(* A candidate without any data scored 0 and left out, next to one without *)
(* rating and cast that is returned.                                       *)
C19_Witness ==
    /\ Personalized("A") /\ Uncut
    /\ \E i, j \in 1..Len(scored["A"]) :
          /\ MissingWeight(scored["A"][i].movie) = 100
          /\ scored["A"][i].score.num = 0
          /\ ~IsReturned("A", scored["A"][i].movie)
          /\ scored["A"][j].movie.vote_average = 0
          /\ MissingWeight(scored["A"][j].movie) = 35
          /\ IsReturned("A", scored["A"][j].movie)

(* The entries of list at the positions (page - 1) * limit + 1 to          *)
(* page * limit that exist.                                                *)
PageOf(list, page, limit_) ==
    SubSeq(list, Max((page - 1) * limit_ + 1, 1), Min(page * limit_, Len(list)))

(* t = ceil(a / b) *)
IsCeil(t, a, b) ==
    IF b > 0 THEN t * b >= a /\ (t - 1) * b < a
    ELSE t * b <= a /\ (t - 1) * b > a

(* C20: a response holds exactly the entries at positions                  *)
(* (page - 1) * limit + 1 to page * limit of the category-filtered ranked  *)
(* list of its request, its totalPages is ceil(total / limit), and the     *)
(* pages 1 to totalPages of the request, one after another, are that list. *)
C20_Pagination ==
    (apiPc = "responded" /\ response.status = 200) =>
        LET list == FilteredRecommendations(request)
            pg == response.pagination
            pageOf(n) == Respond([request EXCEPT !.page = Param("number", n)]).recommendations
        IN  /\ pg.total = Len(list)
            /\ response.recommendations = PageOf(list, pg.page, pg.limit)
            /\ IsCeil(pg.totalPages, pg.total, pg.limit)
            /\ Flatten([n \in 1..pg.totalPages |-> pageOf(n)]) = list

-----------------------------------------------------------------------------
(* SpecSearch: search / getTrending calls over a page of up to MaxResults  *)
(* items, with and without OMDB data, every lookup settling either way.    *)

MaxResults == 2    \* most items of one TMDB result page

SearchItems ==
    {[id |-> 1, title |-> t, vote_average |-> v] : t \in {"", "Heat"}, v \in {0, 780}}

SearchRecords ==
    {[imdbRating |-> Txt("num", 810), Ratings |-> <<>>],
     [imdbRating |-> Txt("NA", 0), Ratings |-> <<>>],
     [imdbRating |-> Txt("text", 0), Ratings |-> <<>>],
     [imdbRating |-> Txt("NA", 0),
      Ratings |-> <<[Source |-> "Rotten Tomatoes", Value |-> Txt("NA", 0)]>>],
     [imdbRating |-> Txt("num", 810),
      Ratings |-> <<[Source |-> "Rotten Tomatoes", Value |-> Txt("num", 85)],
                    [Source |-> "Metacritic", Value |-> Txt("text", 0)]>>]}

LookupOutcomes == {NoMatch, Throws} \cup {Found(r) : r \in SearchRecords}

InitSearch == EngineUnused /\ ApiInit /\ AggIdle /\ LaterIdle

Searched ==
    /\ searchPc = "idle"
    /\ \E items \in SeqsUpTo(SearchItems, MaxResults), includeOMDBData \in BOOLEAN :
            SearchCall(items, includeOMDBData)
    /\ UNCHANGED notSearch

TmdbDown == SearchFails /\ UNCHANGED notSearch

Settled ==
    /\ searchPc = "mapping"
    /\ \E i \in 1..MaxResults, outcome \in LookupOutcomes : LookupSettles(i, outcome)
    /\ UNCHANGED notSearch

Resolved == SearchResolves /\ UNCHANGED notSearch

SearchDone == SearchReturns /\ UNCHANGED notSearch

NextSearch == Searched \/ TmdbDown \/ Settled \/ Resolved \/ SearchDone

SpecSearch == InitSearch /\ [][NextSearch]_vars

(* C21: a call rejects only when TMDB failed; in a resolved call every     *)
(* item is returned, an item whose OMDB lookup threw or found nothing has  *)
(* dataSource "tmdb" and aggregatedScore equal to its TMDB vote_average,   *)
(* an item is "tmdb+omdb" exactly when a record was found and merged, and  *)
(* each result is what its own item and lookup alone give.                 *)
C21_EnrichmentFailureLocal ==
    /\ searchPc = "rejected" => lookups = <<>>
    /\ searchPc = "resolved" =>
        /\ Len(searchResults) = Len(searchCall.items)
        /\ \A i \in 1..Len(searchResults) :
            LET item == searchCall.items[i]
                plain == convertTMDBToEnhanced(item)
            IN  /\ lookups[i].kind \in {"null", "throws"} =>
                    /\ searchResults[i].dataSource = "tmdb"
                    /\ searchResults[i].aggregatedScore = item.vote_average
                /\ searchResults[i].dataSource = "tmdb+omdb" <=> lookups[i].kind = "found"
                /\ searchResults[i] =
                        IF lookups[i].kind = "found"
                        THEN mergeOMDBData(plain, lookups[i].record[1])
                        ELSE plain

(* A resolved call of two items: the lookup of the first threw, the record *)
(* of the second was merged.                                               *)
C21_Witness ==
    /\ searchPc = "resolved"
    /\ Len(searchResults) = 2
    /\ lookups[1].kind = "throws"
    /\ searchResults[1].dataSource = "tmdb"
    /\ searchResults[1].aggregatedScore = 780
    /\ lookups[2].kind = "found"
    /\ searchResults[2].dataSource = "tmdb+omdb"

(* The texts an OMDB record holds for a provider: the imdbRating field and *)
(* the Value of the entries of its Ratings array with the provider's       *)
(* Source.                                                                 *)
ProviderTexts(record, provider) ==
    LET source == CASE provider = "imdb" -> "Internet Movie Database"
                    [] provider = "rottenTomatoes" -> "Rotten Tomatoes"
                    [] provider = "metacritic" -> "Metacritic"
    IN  {record.Ratings[k].Value :
            k \in {k \in 1..Len(record.Ratings) : record.Ratings[k].Source = source}}
        \cup (IF provider = "imdb" /\ record.imdbRating.kind # "none"
              THEN {record.imdbRating} ELSE {})

(* C22 as stated: in a merged item, a provider for which the OMDB record   *)
(* holds only "N/A" or other non-numeric text has no sub-rating in the     *)
(* ratings object, and every sub-rating that is present has score >= 0.    *)
C22_DefensiveParsing ==
    searchPc = "resolved" =>
        \A i \in 1..Len(searchResults) :
            lookups[i].kind = "found" =>
                \A provider \in {"imdb", "rottenTomatoes", "metacritic"} :
                    LET texts == ProviderTexts(lookups[i].record[1], provider)
                        sub == searchResults[i].ratings[provider]
                    IN  /\ (texts # {} /\ \A t \in texts : t.kind # "num") => sub = <<>>
                        /\ sub # <<>> => sub[1] >= 0

-----------------------------------------------------------------------------
(* SpecContext: a provider mounted over an empty or unreadable             *)
(* localStorage, then any sequence of the context functions, of clock      *)
(* ticks and of page reloads; every setItem succeeds.                      *)

MaxItems == 2      \* most items saved at a time
MaxClock == 2      \* last clock tick

WatchKeys ==
    {[id |-> 1, media_type |-> "movie"], [id |-> 1, media_type |-> "tv"],
     [id |-> 2, media_type |-> "movie"]}

WatchIdsCtx == {k.id : k \in WatchKeys}

InitContext ==
    /\ EngineUnused /\ ApiInit /\ AggIdle /\ SearchIdle /\ LimiterIdle /\ OmdbIdle
    /\ ContextInit({NothingStored, Corrupt})

Load == LoadEffect /\ UNCHANGED notCtx

Save == SaveEffect(FALSE) /\ UNCHANGED notCtx

Rerender == Render /\ UNCHANGED notCtx

Add ==
    /\ \E k \in WatchKeys :
        /\ Len(state.items) < MaxItems \/ HasItem(state.items, k.id, k.media_type)
        /\ addToWatchlist(k.id, k.media_type)
    /\ UNCHANGED notCtx

Remove == (\E id \in WatchIdsCtx : removeFromWatchlist(id)) /\ UNCHANGED notCtx

Toggle == (\E id \in WatchIdsCtx : toggleWatched(id)) /\ UNCHANGED notCtx

Clear == clearWatchlist /\ UNCHANGED notCtx

Reload == Remount /\ UNCHANGED notCtx

Tick ==
    /\ clock < MaxClock
    /\ clock' = clock + 1
    /\ UNCHANGED <<state, closure, effects, localStorage, lastCall, saveFailed>>
    /\ UNCHANGED notCtx

NextContext ==
    Load \/ Save \/ Rerender \/ Add \/ Remove \/ Toggle \/ Clear \/ Reload \/ Tick

SpecContext == InitContext /\ [][NextContext]_vars

KeyOf(item) == [id |-> item.id, media_type |-> item.media_type]

(* C23: no two saved items share both id and media_type, and an            *)
(* addToWatchlist of a key already saved leaves the state as it was.       *)
C23_WatchlistUnique ==
    /\ \A i, j \in 1..Len(state.items) :
            KeyOf(state.items[i]) = KeyOf(state.items[j]) => i = j
    /\ (lastCall.op = "add" /\ HasItem(lastCall.before, lastCall.id, lastCall.media_type))
            => state.items = lastCall.before

(* The TV show 1 was added at tick 2 while it was saved since tick 0 next  *)
(* to the movie 1: the list is as before.                                  *)
C23_Witness ==
    /\ lastCall.op = "add" /\ lastCall.id = 1 /\ lastCall.media_type = "tv"
    /\ clock = 2
    /\ Len(state.items) = 2
    /\ state.items[1] = WatchlistItem(1, "movie", 0)
    /\ state.items[2].media_type = "tv" /\ state.items[2].added_date = 0
    /\ state.items = lastCall.before

(* C24: every saved item has a watched_date exactly when it is watched;    *)
(* an item a call turned to watched carries the time of the call, one it   *)
(* turned to unwatched carries none; an item saved before and after a call *)
(* has the added_date it had.                                              *)
C24_WatchedTimestamp ==
    /\ \A i \in 1..Len(state.items) :
            state.items[i].watched_date # <<>> <=> state.items[i].watched
    /\ \A i \in 1..Len(state.items) :
            \A j \in 1..Len(lastCall.before) :
                KeyOf(lastCall.before[j]) = KeyOf(state.items[i]) =>
                    LET old == lastCall.before[j]
                        new == state.items[i]
                    IN  /\ new.added_date = old.added_date
                        /\ (~old.watched /\ new.watched) =>
                                new.watched_date = <<lastCall.at>>
                        /\ (old.watched /\ ~new.watched) => new.watched_date = <<>>

(* The movie 1, saved at tick 0 and watched since tick 1, was toggled back *)
(* to unwatched at tick 2.                                                 *)
C24_Witness ==
    /\ lastCall.op = "toggle" /\ lastCall.id = 1 /\ lastCall.at = 2
    /\ Len(lastCall.before) = 1
    /\ lastCall.before[1].watched /\ lastCall.before[1].watched_date = <<1>>
    /\ state.items = <<WatchlistItem(1, "movie", 0)>>

(* C25 as stated: after toggleWatched or removeFromWatchlist invoked for a *)
(* saved item, every item that was saved under another (id, media_type)    *)
(* key is saved as it was, and after toggleWatched the item it was invoked *)
(* for has its watched flag inverted.                                      *)
C25_PerItemFrame ==
    lastCall.op \in {"toggle", "remove"} =>
        \A t \in 1..Len(lastCall.before) :
            lastCall.before[t].id = lastCall.id =>
                LET target == lastCall.before[t]
                IN  /\ \A j \in 1..Len(lastCall.before) :
                            KeyOf(lastCall.before[j]) # KeyOf(target) =>
                                \E i \in 1..Len(state.items) :
                                    state.items[i] = lastCall.before[j]
                    /\ lastCall.op = "toggle" =>
                            \E i \in 1..Len(state.items) :
                                /\ KeyOf(state.items[i]) = KeyOf(target)
                                /\ state.items[i].watched = ~target.watched

-----------------------------------------------------------------------------
(* SpecProvider: the provider of SpecContext with a clock that stands      *)
(* still and a localStorage.setItem that may throw.                        *)

SaveThrows == SaveEffect(TRUE) /\ UNCHANGED notCtx

NextProvider ==
    Load \/ Save \/ SaveThrows \/ Rerender \/ Add \/ Remove \/ Toggle \/ Clear \/ Reload

SpecProvider == InitContext /\ [][NextProvider]_vars

(* No step changes the stored value while the rendered state is loading. *)
NoWriteWhileLoading == localStorage' # localStorage => ~closure.loading

-----------------------------------------------------------------------------
(* SpecTmdb: up to MaxCallers calls of makeRequest, made at any time, none *)
(* waiting for another; time passes in half windows or up to the next      *)
(* timer.                                                                  *)

MaxCallers == 37   \* most makeRequest calls
MaxNow == 11000    \* last instant, in milliseconds

InitTmdb == EngineUnused /\ ApiInit /\ AggIdle /\ LaterIdle

Requested ==
    /\ Len(sent) + Len(sleeping) < MaxCallers
    /\ waitIfNeeded
    /\ UNCHANGED notLim

Woken == TimerFires /\ UNCHANGED notLim

Passes ==
    /\ \E t \in {now + timeWindow \div 2} \cup {sleeping[i] : i \in 1..Len(sleeping)} :
            now < t /\ t <= MaxNow /\ now' = t
    /\ UNCHANGED <<requests, sleeping, sent>>
    /\ UNCHANGED notLim

NextTmdb == Requested \/ Woken \/ Passes

SpecTmdb == InitTmdb /\ [][NextTmdb]_vars

(* The requests sent in the window of the given length that starts at t. *)
SentInWindow(times, t, window) ==
    Cardinality({j \in 1..Len(times) : t <= times[j] /\ times[j] - t < window})

(* C26 as stated: no window of 10 seconds holds more than 35 of the        *)
(* requests recorded and sent.                                             *)
C26_TmdbRateLimit ==
    \A t \in Range(sent) : SentInWindow(sent, t, timeWindow) <= maxRequests

-----------------------------------------------------------------------------
(* SpecOmdb: a day of OMDB lookups.  Runs of maxRequestsPerDay - 1         *)
(* answered calls, up to MaxCalls single calls of which up to MaxInFlight  *)
(* await their answer at a time, answers of every kind, and time passing   *)
(* in half days.                                                           *)

MaxCalls == 3      \* most single makeRequest calls
MaxInFlight == 2   \* most fetches awaiting their answer
MaxDays == 1       \* last instant, in days

InitOmdb == EngineUnused /\ ApiInit /\ AggIdle /\ LaterIdle

OmdbRequested ==
    /\ omdbCalls < MaxCalls
    /\ inFlight < MaxInFlight
    /\ omdbMakeRequest
    /\ UNCHANGED now
    /\ UNCHANGED notOmdb

OmdbAnswers ==
    /\ \E outcome \in {"data", "false", "http", "network"} : omdbAnswer(outcome)
    /\ UNCHANGED now
    /\ UNCHANGED notOmdb

OmdbRun ==
    /\ omdbAnswered(maxRequestsPerDay - 1)
    /\ UNCHANGED now
    /\ UNCHANGED notOmdb

OmdbPasses ==
    /\ now + dayInMs \div 2 <= MaxDays * dayInMs
    /\ now' = now + dayInMs \div 2
    /\ UNCHANGED omdbVars
    /\ UNCHANGED notOmdb

NextOmdb == OmdbRequested \/ OmdbAnswers \/ OmdbRun \/ OmdbPasses

SpecOmdb == InitOmdb /\ [][NextOmdb]_vars

(* C27 as stated: no window of 24 hours holds more than 950 of the         *)
(* requests sent, and a call made when the limiter holds 950 requests of   *)
(* the last 24 hours ends in an OMDBError with nothing sent.               *)
C27_OmdbRateLimit ==
    /\ \A t \in Range(omdbSent) : SentInWindow(omdbSent, t, dayInMs) <= maxRequestsPerDay
    /\ lastOmdb.recent >= maxRequestsPerDay =>
            lastOmdb.result = "OMDBError" /\ Len(omdbSent) = lastOmdb.sentBefore

-----------------------------------------------------------------------------
(* C29 as stated: when no saved item has a release year above 1900,        *)
(* preferredYearRange.min is the current year - 10, and a candidate of a   *)
(* personalized call released in the last ten years scores at least the    *)
(* 0.15 of the year term.                                                  *)
C29_YearBandFallback ==
    \A e \in Engines :
        (preferences[e] # <<>> /\ YearsOf(watchlist[e]) = {}) =>
            /\ preferences[e][1].preferredYearRange.min = CurrentYear - 10
            /\ Personalized(e) =>
                    \A i \in 1..Len(scored[e]) :
                        LET rec == scored[e][i]
                        IN  (rec.movie.year >= CurrentYear - 10
                                /\ rec.movie.year <= CurrentYear) =>
                                    20 * rec.score.num >= 3 * rec.score.den

-----------------------------------------------------------------------------
(* C30: the recommendations a generateRecommendations call returns, in    *)
(* the cold-start and in the personalized branch, have one of the          *)
(* categories genre_match, highly_rated, trending and similar_taste and    *)
(* the fields movie, score, reasons and category only (no basedOn); the    *)
(* route's category count of them has because_you_watched at 0 and its     *)
(* because_you_watched filter keeps none.                                  *)
C30_ReachableCategories ==
    \A e \in Engines :
        Returned(e) =>
            LET recs == recommendations[e]
            IN  /\ \A i \in 1..Len(recs) :
                    /\ recs[i].category \in
                            {"genre_match", "highly_rated", "trending", "similar_taste"}
                    /\ DOMAIN recs[i] = {"movie", "score", "reasons", "category"}
                /\ getCategoryStats(recs)["because_you_watched"] = 0
                /\ SelectSeq(recs, LAMBDA rec : rec.category = "because_you_watched") = <<>>

(* A personalized call that returned two recommendations, the second one   *)
(* with the fall-through category similar_taste.                           *)
C30_Witness ==
    /\ Personalized("A")
    /\ Len(recommendations["A"]) = 2
    /\ recommendations["A"][1].category # "similar_taste"
    /\ recommendations["A"][2].category = "similar_taste"

(* C30, the route: in every response the because_you_watched count is 0,   *)
(* the counts of the other four categories add up to all recommendations,  *)
(* and the because_you_watched view is empty.                              *)
C30_ApiView ==
    (apiPc = "responded" /\ response.status = 200) =>
        /\ \A i \in 1..Len(response.recommendations) :
                response.recommendations[i].category \in
                    {"genre_match", "highly_rated", "trending", "similar_taste"}
        /\ response.categories["because_you_watched"] = 0
        /\ request.category = "all" =>
                response.pagination.total =
                    response.categories["genre_match"] + response.categories["highly_rated"]
                    + response.categories["trending"] + response.categories["similar_taste"]
        /\ request.category = "because_you_watched" =>
                response.recommendations = <<>> /\ response.pagination.total = 0

====
